---- MODULE Spec2Model ----
(***************************************************************************)
(* RustyCSV: the streaming parsers (strategy/streaming.rs and the two      *)
(* general streaming parsers of strategy/general.rs), the direct reader    *)
(* they are compared with (strategy/direct.rs) and field extraction        *)
(* (core/field.rs).  Bytes are integers, byte strings are sequences of     *)
(* bytes, and positions are 0-based as in the source: byte i of a slice s  *)
(* is s[i + 1].                                                            *)
(***************************************************************************)
EXTENDS Integers, Sequences, FiniteSets, TLC

LF == 10
CR == 13
QUOTE == 34
DOLLAR == 36
COMMA == 44

DEFAULT_MAX_BUFFER == 268435456

(* Bounds of the model. *)
MaxInput == 4
MaxChunk == 2
MaxTake == 2
LowLimit == 2

Min(a, b) == IF a < b THEN a ELSE b

(***************************************************************************)
(* usize arithmetic.  A usize is written as the integer congruent to it    *)
(* modulo 2^64 of least absolute value, so the values just below 2^64 that *)
(* a wrapped subtraction produces are the negative integers; usize_lt is   *)
(* the unsigned comparison under that writing.  "a -= b" on usize panics   *)
(* when b > a in a build with overflow checks (the dev profile) and wraps  *)
(* in a build without them (the release profile).                          *)
(***************************************************************************)
usize_lt(a, b) == IF (a < 0) = (b < 0) THEN a < b ELSE b < 0

usize_sub(a, b, overflow_checks) ==
    IF usize_lt(a, b) /\ overflow_checks
    THEN [value |-> a, panic |-> TRUE]
    ELSE [value |-> a - b, panic |-> FALSE]

(* input[a..b] of the source: bytes a .. b-1. *)
Slice(s, a, b) == SubSeq(s, a + 1, b)

(* slice.contains(&byte) *)
Contains(s, byte) == \E i \in 1..Len(s) : s[i] = byte

(* All byte strings over S of length 0..n. *)
BytesUpTo(S, n) == UNION {[1..k -> S] : k \in 0..n}

IsPrefix(s, t) == Len(s) <= Len(t) /\ SubSeq(t, 1, Len(s)) = s

(***************************************************************************)
(* core/scanner.rs                                                         *)
(***************************************************************************)
is_separator(byte, separators) == \E i \in 1..Len(separators) : byte = separators[i]

(***************************************************************************)
(* core/field.rs                                                           *)
(***************************************************************************)
RECURSIVE extract_field_cow_unescape(_, _, _, _)
extract_field_cow_unescape(inner, i, escape, result) ==
    IF i >= Len(inner) THEN result
    ELSE IF inner[i + 1] = escape /\ i + 1 < Len(inner) /\ inner[i + 2] = escape
         THEN extract_field_cow_unescape(inner, i + 2, escape, Append(result, escape))
         ELSE extract_field_cow_unescape(inner, i + 1, escape, Append(result, inner[i + 1]))

extract_field_cow_with_escape(input, start, end, escape) ==
    IF start >= end THEN <<>>
    ELSE LET field == Slice(input, start, end) IN
         IF Len(field) < 2 \/ field[1] # escape \/ field[Len(field)] # escape
         THEN field
         ELSE LET inner == Slice(field, 1, Len(field) - 1) IN
              IF ~Contains(inner, escape) THEN inner
              ELSE extract_field_cow_unescape(inner, 0, escape, <<>>)

RECURSIVE extract_field_owned_unescape(_, _, _, _)
extract_field_owned_unescape(inner, i, escape, result) ==
    IF i >= Len(inner) THEN result
    ELSE IF inner[i + 1] = escape /\ i + 1 < Len(inner) /\ inner[i + 2] = escape
         THEN extract_field_owned_unescape(inner, i + 2, escape, Append(result, escape))
         ELSE extract_field_owned_unescape(inner, i + 1, escape, Append(result, inner[i + 1]))

extract_field_owned_with_escape(input, start, end, escape) ==
    IF start >= end THEN <<>>
    ELSE LET field == Slice(input, start, end) IN
         IF Len(field) < 2 \/ field[1] # escape \/ field[Len(field)] # escape
         THEN field
         ELSE LET inner == Slice(field, 1, Len(field) - 1) IN
              IF ~Contains(inner, escape) THEN inner
              ELSE extract_field_owned_unescape(inner, 0, escape, <<>>)

(***************************************************************************)
(* strategy/direct.rs: the direct reader.                                  *)
(***************************************************************************)
(* The loop of parse_row_cow_with_config; the result is (fields, next_pos). *)
RECURSIVE parse_row_cow_loop(_, _, _, _, _, _, _)
parse_row_cow_loop(input, separator, escape, pos, field_start, in_quotes, fields) ==
    IF pos >= Len(input)
    THEN <<Append(fields, extract_field_cow_with_escape(input, field_start, pos, escape)), pos>>
    ELSE LET byte == input[pos + 1] IN
         IF in_quotes
         THEN IF byte = escape
              THEN IF pos + 1 < Len(input) /\ input[pos + 2] = escape
                   THEN parse_row_cow_loop(input, separator, escape, pos + 2, field_start, TRUE, fields)
                   ELSE parse_row_cow_loop(input, separator, escape, pos + 1, field_start, FALSE, fields)
              ELSE parse_row_cow_loop(input, separator, escape, pos + 1, field_start, TRUE, fields)
         ELSE IF byte = escape
         THEN parse_row_cow_loop(input, separator, escape, pos + 1, field_start, TRUE, fields)
         ELSE IF byte = separator
         THEN parse_row_cow_loop(input, separator, escape, pos + 1, pos + 1, FALSE,
                  Append(fields, extract_field_cow_with_escape(input, field_start, pos, escape)))
         ELSE IF byte = LF
         THEN <<Append(fields, extract_field_cow_with_escape(input, field_start, pos, escape)), pos + 1>>
         ELSE IF byte = CR /\ pos + 1 < Len(input) /\ input[pos + 2] = LF
         THEN <<Append(fields, extract_field_cow_with_escape(input, field_start, pos, escape)), pos + 2>>
         ELSE parse_row_cow_loop(input, separator, escape, pos + 1, field_start, FALSE, fields)

parse_row_cow_with_config(input, start, separator, escape) ==
    parse_row_cow_loop(input, separator, escape, start, start, FALSE, <<>>)

(* The loop of parse_csv_full_with_config: one row per iteration, empty    *)
(* rows included.                                                          *)
RECURSIVE parse_csv_full_loop(_, _, _, _, _)
parse_csv_full_loop(input, separator, escape, pos, rows) ==
    IF pos >= Len(input) THEN rows
    ELSE LET r == parse_row_cow_with_config(input, pos, separator, escape) IN
         parse_csv_full_loop(input, separator, escape, r[2], Append(rows, r[1]))

parse_csv_full_with_config(input, separator, escape) ==
    parse_csv_full_loop(input, separator, escape, 0, <<>>)

(***************************************************************************)
(* strategy/streaming.rs: StreamingParser.  A parser is a record of the    *)
(* struct's fields plus the variant tag of StreamingParserEnum.            *)
(***************************************************************************)
StreamingParser_with_config(separator, escape) ==
    [kind |-> "SingleByte",
     buffer |-> <<>>,
     complete_rows |-> <<>>,
     partial_row_start |-> 0,
     scan_pos |-> 0,
     in_quotes |-> FALSE,
     separators |-> <<separator>>,
     escape |-> escape,
     max_buffer_size |-> DEFAULT_MAX_BUFFER]

StreamingParser_new == StreamingParser_with_config(COMMA, QUOTE)

(* The loop of parse_row_owned over line = buffer[start..end]. *)
RECURSIVE StreamingParser_parse_row_loop(_, _, _, _, _, _, _)
StreamingParser_parse_row_loop(line, separators, escape, pos, field_start, in_quotes, fields) ==
    IF pos >= Len(line)
    THEN Append(fields, extract_field_owned_with_escape(line, field_start, pos, escape))
    ELSE LET byte == line[pos + 1] IN
         IF in_quotes
         THEN IF byte = escape
              THEN IF pos + 1 < Len(line) /\ line[pos + 2] = escape
                   THEN StreamingParser_parse_row_loop(line, separators, escape, pos + 2, field_start, TRUE, fields)
                   ELSE StreamingParser_parse_row_loop(line, separators, escape, pos + 1, field_start, FALSE, fields)
              ELSE StreamingParser_parse_row_loop(line, separators, escape, pos + 1, field_start, TRUE, fields)
         ELSE IF byte = escape
         THEN StreamingParser_parse_row_loop(line, separators, escape, pos + 1, field_start, TRUE, fields)
         ELSE IF is_separator(byte, separators)
         THEN StreamingParser_parse_row_loop(line, separators, escape, pos + 1, pos + 1, FALSE,
                  Append(fields, extract_field_owned_with_escape(line, field_start, pos, escape)))
         ELSE StreamingParser_parse_row_loop(line, separators, escape, pos + 1, field_start, FALSE, fields)

StreamingParser_parse_row_owned(self, start, end) ==
    IF start >= end THEN <<>>
    ELSE StreamingParser_parse_row_loop(Slice(self.buffer, start, end),
                                        self.separators, self.escape, 0, 0, FALSE, <<>>)

(* "let row = parse_row_owned(partial_row_start, row_end); if !row.is_empty() *)
(* { complete_rows.push(row) }; partial_row_start = next; in_quotes = false"  *)
StreamingParser_end_row(self, row_end, next) ==
    LET row == StreamingParser_parse_row_owned(self, self.partial_row_start, row_end) IN
    [self EXCEPT !.complete_rows = IF row # <<>> THEN Append(@, row) ELSE @,
                 !.partial_row_start = next,
                 !.in_quotes = FALSE]

(* The loop as it would be if a CR at the end of the buffer were taken as *)
(* data at once.                                                          *)
RECURSIVE StreamingParser_scan_cr_is_data(_, _)
StreamingParser_scan_cr_is_data(self, pos) ==
    IF ~usize_lt(pos, Len(self.buffer)) THEN [self EXCEPT !.scan_pos = pos]
    ELSE LET byte == self.buffer[pos + 1] IN
         IF self.in_quotes
         THEN IF byte = self.escape
              THEN IF pos + 1 < Len(self.buffer) /\ self.buffer[pos + 2] = self.escape
                   THEN StreamingParser_scan_cr_is_data(self, pos + 2)
                   ELSE StreamingParser_scan_cr_is_data([self EXCEPT !.in_quotes = FALSE], pos + 1)
              ELSE StreamingParser_scan_cr_is_data(self, pos + 1)
         ELSE IF byte = self.escape
         THEN StreamingParser_scan_cr_is_data([self EXCEPT !.in_quotes = TRUE], pos + 1)
         ELSE IF byte = LF
         THEN StreamingParser_scan_cr_is_data(StreamingParser_end_row(self, pos, pos + 1), pos + 1)
         ELSE IF byte = CR
         THEN IF pos + 1 < Len(self.buffer)
              THEN IF self.buffer[pos + 2] = LF
                   THEN StreamingParser_scan_cr_is_data(StreamingParser_end_row(self, pos, pos + 2), pos + 2)
                   ELSE StreamingParser_scan_cr_is_data(self, pos + 1)
              ELSE StreamingParser_scan_cr_is_data(self, pos + 1)
         ELSE StreamingParser_scan_cr_is_data(self, pos + 1)

(* The while loop of process_buffer; it ends by saving scan_pos. *)
RECURSIVE StreamingParser_scan(_, _)
StreamingParser_scan(self, pos) ==
    IF ~usize_lt(pos, Len(self.buffer)) THEN [self EXCEPT !.scan_pos = pos]
    ELSE LET byte == self.buffer[pos + 1] IN
         IF self.in_quotes
         THEN IF byte = self.escape
              THEN IF pos + 1 < Len(self.buffer) /\ self.buffer[pos + 2] = self.escape
                   THEN StreamingParser_scan(self, pos + 2)
                   ELSE StreamingParser_scan([self EXCEPT !.in_quotes = FALSE], pos + 1)
              ELSE StreamingParser_scan(self, pos + 1)
         ELSE IF byte = self.escape
         THEN StreamingParser_scan([self EXCEPT !.in_quotes = TRUE], pos + 1)
         ELSE IF byte = LF
         THEN StreamingParser_scan(StreamingParser_end_row(self, pos, pos + 1), pos + 1)
         ELSE IF byte = CR
         THEN IF pos + 1 < Len(self.buffer)
              THEN IF self.buffer[pos + 2] = LF
                   THEN StreamingParser_scan(StreamingParser_end_row(self, pos, pos + 2), pos + 2)
                   ELSE StreamingParser_scan(self, pos + 1)
              ELSE [self EXCEPT !.scan_pos = pos]
         ELSE StreamingParser_scan(self, pos + 1)

(* compact_buffer as it would be if scan_pos were not adjusted. *)
StreamingParser_compact_buffer_stale_scan_pos(self, overflow_checks) ==
    IF self.partial_row_start > 0
    THEN [self |-> [self EXCEPT !.buffer = Slice(@, self.partial_row_start, Len(@)),
                                !.partial_row_start = 0],
          panic |-> FALSE]
    ELSE [self |-> self, panic |-> FALSE]

(* The result is the parser after the call and whether the call panicked; *)
(* the panic of "scan_pos -= partial_row_start" unwinds after the drain.   *)
StreamingParser_compact_buffer(self, overflow_checks) ==
    IF self.partial_row_start > 0
    THEN LET drained == [self EXCEPT !.buffer = Slice(@, self.partial_row_start, Len(@))]
             d == usize_sub(self.scan_pos, self.partial_row_start, overflow_checks) IN
         IF d.panic
         THEN [self |-> drained, panic |-> TRUE]
         ELSE [self |-> [drained EXCEPT !.scan_pos = d.value, !.partial_row_start = 0],
               panic |-> FALSE]
    ELSE [self |-> self, panic |-> FALSE]

(* process_buffer as it would be if it compacted only when the start of    *)
(* the row in progress were past half of the buffer.                       *)
StreamingParser_process_buffer_past_half(self, overflow_checks) ==
    LET s == StreamingParser_scan(self, self.scan_pos) IN
    IF s.partial_row_start > 0 /\ s.partial_row_start > Len(s.buffer) \div 2
    THEN StreamingParser_compact_buffer(s, overflow_checks)
    ELSE [self |-> s, panic |-> FALSE]

StreamingParser_process_buffer(self, overflow_checks) ==
    LET s == StreamingParser_scan(self, self.scan_pos) IN
    IF s.partial_row_start > 0 /\ s.partial_row_start >= Len(s.buffer) \div 2
    THEN StreamingParser_compact_buffer(s, overflow_checks)
    ELSE [self |-> s, panic |-> FALSE]

(* feed as it would be if the chunk were appended before the limit check. *)
StreamingParser_feed_append_first(self, chunk, overflow_checks) ==
    IF Len(self.buffer) + Len(chunk) > self.max_buffer_size
    THEN [self |-> [self EXCEPT !.buffer = @ \o chunk], overflow |-> TRUE, panic |-> FALSE]
    ELSE LET r == StreamingParser_process_buffer([self EXCEPT !.buffer = @ \o chunk], overflow_checks) IN
         [self |-> r.self, overflow |-> FALSE, panic |-> r.panic]

(* feed as it would be if the limit check looked at the chunk alone. *)
StreamingParser_feed_chunk_only(self, chunk, overflow_checks) ==
    IF Len(chunk) > self.max_buffer_size
    THEN [self |-> self, overflow |-> TRUE, panic |-> FALSE]
    ELSE LET r == StreamingParser_process_buffer([self EXCEPT !.buffer = @ \o chunk], overflow_checks) IN
         [self |-> r.self, overflow |-> FALSE, panic |-> r.panic]

(* feed: the result is the parser after the call, whether it returned      *)
(* Err(BufferOverflow) and whether it panicked.                            *)
StreamingParser_feed(self, chunk, overflow_checks) ==
    IF Len(self.buffer) + Len(chunk) > self.max_buffer_size
    THEN [self |-> self, overflow |-> TRUE, panic |-> FALSE]
    ELSE LET r == StreamingParser_process_buffer([self EXCEPT !.buffer = @ \o chunk], overflow_checks) IN
         [self |-> r.self, overflow |-> FALSE, panic |-> r.panic]

StreamingParser_set_max_buffer_size(self, max) == [self EXCEPT !.max_buffer_size = max]

(* take_rows as it would be if the rows returned stayed queued. *)
StreamingParser_take_rows_keeps_queue(self, max) ==
    LET take_count == Min(max, Len(self.complete_rows)) IN
    [self |-> self, rows |-> SubSeq(self.complete_rows, 1, take_count)]

StreamingParser_take_rows(self, max) ==
    LET take_count == Min(max, Len(self.complete_rows)) IN
    [self |-> [self EXCEPT !.complete_rows = SubSeq(@, take_count + 1, Len(@))],
     rows |-> SubSeq(self.complete_rows, 1, take_count)]

(* finalize as it would be if partial_row_start were not moved to the end. *)
StreamingParser_finalize_keeps_row_start(self) ==
    LET s == IF self.partial_row_start < Len(self.buffer)
             THEN LET row == StreamingParser_parse_row_owned(self, self.partial_row_start, Len(self.buffer)) IN
                  [self EXCEPT !.complete_rows = IF row # <<>> THEN Append(@, row) ELSE @]
             ELSE self
    IN [self |-> [s EXCEPT !.complete_rows = <<>>], rows |-> s.complete_rows]

(* finalize as it would be if the row in progress were forgotten. *)
StreamingParser_finalize_without_partial(self) ==
    [self |-> [self EXCEPT !.complete_rows = <<>>], rows |-> self.complete_rows]

StreamingParser_finalize(self) ==
    LET s == IF self.partial_row_start < Len(self.buffer)
             THEN LET row == StreamingParser_parse_row_owned(self, self.partial_row_start, Len(self.buffer)) IN
                  [self EXCEPT !.complete_rows = IF row # <<>> THEN Append(@, row) ELSE @,
                               !.partial_row_start = Len(self.buffer)]
             ELSE self
    IN [self |-> [s EXCEPT !.complete_rows = <<>>], rows |-> s.complete_rows]


(***************************************************************************)
(* core/newlines.rs                                                        *)
(***************************************************************************)
(* slice[pos..].starts_with(pattern) *)
StartsWithAt(data, pos, pattern) ==
    pos + Len(pattern) <= Len(data) /\ Slice(data, pos, pos + Len(pattern)) = pattern

MaxLen(patterns) ==
    IF patterns = <<>> THEN 0
    ELSE CHOOSE n \in {Len(patterns[i]) : i \in 1..Len(patterns)} :
             \A i \in 1..Len(patterns) : Len(patterns[i]) <= n

(* patterns.sort_by_key(|b| Reverse(b.len())): a stable sort, longest first. *)
RECURSIVE SortLongestFirst(_, _)
SortLongestFirst(patterns, n) ==
    IF n = 0 THEN <<>>
    ELSE LET HasLen(p) == Len(p) = n IN
         SelectSeq(patterns, HasLen) \o SortLongestFirst(patterns, n - 1)

Newlines_custom(patterns) ==
    [patterns |-> SortLongestFirst(patterns, MaxLen(patterns)), is_default |-> FALSE]

Newlines_default_newlines == [patterns |-> <<<<CR, LF>>, <<LF>>>>, is_default |-> TRUE]

max_pattern_len(newlines) ==
    IF newlines.patterns = <<>> THEN 1 ELSE MaxLen(newlines.patterns)

RECURSIVE match_newline_from(_, _, _, _)
match_newline_from(input, pos, patterns, k) ==
    IF k > Len(patterns) THEN 0
    ELSE IF StartsWithAt(input, pos, patterns[k]) THEN Len(patterns[k])
    ELSE match_newline_from(input, pos, patterns, k + 1)

match_newline(input, pos, newlines) == match_newline_from(input, pos, newlines.patterns, 1)

(***************************************************************************)
(* strategy/general.rs: helpers                                            *)
(***************************************************************************)
(* Some(len) is len, None is 0: decode_separators rejects empty patterns. *)
RECURSIVE matches_separator_from(_, _, _, _)
matches_separator_from(data, pos, separators, k) ==
    IF k > Len(separators) THEN 0
    ELSE IF StartsWithAt(data, pos, separators[k]) THEN Len(separators[k])
    ELSE matches_separator_from(data, pos, separators, k + 1)

matches_separator(data, pos, separators) == matches_separator_from(data, pos, separators, 1)

starts_with_escape(data, pos, escape) ==
    pos + Len(escape) <= Len(data) /\ Slice(data, pos, pos + Len(escape)) = escape

RECURSIVE unescape_field_general_loop_drops_single_escape(_, _, _, _)
unescape_field_general_loop_drops_single_escape(inner, escape, i, result) ==
    LET esc_len == Len(escape) IN
    IF i >= Len(inner) THEN result
    ELSE IF /\ i + 2 * esc_len <= Len(inner)
            /\ Slice(inner, i, i + esc_len) = escape
            /\ Slice(inner, i + esc_len, i + 2 * esc_len) = escape
         THEN unescape_field_general_loop_drops_single_escape(inner, escape, i + 2 * esc_len,
                                                              result \o escape)
         ELSE IF starts_with_escape(inner, i, escape)
         THEN unescape_field_general_loop_drops_single_escape(inner, escape, i + esc_len, result)
         ELSE unescape_field_general_loop_drops_single_escape(inner, escape, i + 1,
                                                              Append(result, inner[i + 1]))

RECURSIVE unescape_field_general_loop(_, _, _, _)
unescape_field_general_loop(inner, escape, i, result) ==
    LET esc_len == Len(escape) IN
    IF i >= Len(inner) THEN result
    ELSE IF /\ i + 2 * esc_len <= Len(inner)
            /\ Slice(inner, i, i + esc_len) = escape
            /\ Slice(inner, i + esc_len, i + 2 * esc_len) = escape
         THEN unescape_field_general_loop(inner, escape, i + 2 * esc_len, result \o escape)
         ELSE unescape_field_general_loop(inner, escape, i + 1, Append(result, inner[i + 1]))

unescape_field_general(inner, escape) == unescape_field_general_loop(inner, escape, 0, <<>>)

contains_escape(inner, escape) ==
    IF Len(escape) = 1 THEN Contains(inner, escape[1])
    ELSE \E w \in 0..(Len(inner) - Len(escape)) : Slice(inner, w, w + Len(escape)) = escape

extract_field_cow_general(input, start, end, escape) ==
    IF start >= end THEN <<>>
    ELSE LET field == Slice(input, start, end)
             esc_len == Len(escape) IN
         IF /\ Len(field) >= 2 * esc_len
            /\ Slice(field, 0, esc_len) = escape
            /\ Slice(field, Len(field) - esc_len, Len(field)) = escape
         THEN LET inner == Slice(field, esc_len, Len(field) - esc_len) IN
              IF contains_escape(inner, escape)
              THEN unescape_field_general(inner, escape)
              ELSE inner
         ELSE field

extract_field_owned_general(input, start, end, escape) ==
    extract_field_cow_general(input, start, end, escape)

RECURSIVE parse_line_fields_owned_general_loop(_, _, _, _, _, _, _)
parse_line_fields_owned_general_loop(line, separators, escape, pos, field_start, in_quotes, fields) ==
    LET esc_len == Len(escape) IN
    IF pos >= Len(line)
    THEN Append(fields, extract_field_owned_general(line, field_start, pos, escape))
    ELSE IF in_quotes
         THEN IF starts_with_escape(line, pos, escape)
              THEN IF starts_with_escape(line, pos + esc_len, escape)
                   THEN parse_line_fields_owned_general_loop(line, separators, escape,
                            pos + 2 * esc_len, field_start, TRUE, fields)
                   ELSE parse_line_fields_owned_general_loop(line, separators, escape,
                            pos + esc_len, field_start, FALSE, fields)
              ELSE parse_line_fields_owned_general_loop(line, separators, escape,
                       pos + 1, field_start, TRUE, fields)
         ELSE IF starts_with_escape(line, pos, escape)
         THEN parse_line_fields_owned_general_loop(line, separators, escape,
                  pos + esc_len, field_start, TRUE, fields)
         ELSE LET sep_len == matches_separator(line, pos, separators) IN
              IF sep_len > 0
              THEN parse_line_fields_owned_general_loop(line, separators, escape,
                       pos + sep_len, pos + sep_len, FALSE,
                       Append(fields, extract_field_owned_general(line, field_start, pos, escape)))
              ELSE parse_line_fields_owned_general_loop(line, separators, escape,
                       pos + 1, field_start, FALSE, fields)

parse_line_fields_owned_general(line, separators, escape) ==
    parse_line_fields_owned_general_loop(line, separators, escape, 0, 0, FALSE, <<>>)

(***************************************************************************)
(* strategy/general.rs: GeneralStreamingParser                                                *)
(***************************************************************************)
GeneralStreamingParser_new(separators, escape) ==
    [kind |-> "General",
     buffer |-> <<>>,
     complete_rows |-> <<>>,
     partial_row_start |-> 0,
     scan_pos |-> 0,
     in_quotes |-> FALSE,
     separators |-> separators,
     escape |-> escape,
     max_buffer_size |-> DEFAULT_MAX_BUFFER]

GeneralStreamingParser_parse_row_owned(self, start, end) ==
    IF start >= end THEN <<>>
    ELSE parse_line_fields_owned_general(Slice(self.buffer, start, end),
                                         self.separators, self.escape)

GeneralStreamingParser_end_row(self, row_end, next) ==
    LET row == GeneralStreamingParser_parse_row_owned(self, self.partial_row_start, row_end) IN
    [self EXCEPT !.complete_rows = IF row # <<>> THEN Append(@, row) ELSE @,
                 !.partial_row_start = next,
                 !.in_quotes = FALSE]

(* The while loop of process_buffer; it ends by saving scan_pos. *)
RECURSIVE GeneralStreamingParser_scan(_, _)
GeneralStreamingParser_scan(self, pos) ==
    LET esc_len == Len(self.escape) IN
    IF ~usize_lt(pos, Len(self.buffer)) THEN [self EXCEPT !.scan_pos = pos]
    ELSE IF self.in_quotes
         THEN IF starts_with_escape(self.buffer, pos, self.escape)
              THEN IF starts_with_escape(self.buffer, pos + esc_len, self.escape)
                   THEN GeneralStreamingParser_scan(self, pos + 2 * esc_len)
                   ELSE GeneralStreamingParser_scan([self EXCEPT !.in_quotes = FALSE], pos + esc_len)
              ELSE GeneralStreamingParser_scan(self, pos + 1)
         ELSE IF starts_with_escape(self.buffer, pos, self.escape)
         THEN GeneralStreamingParser_scan([self EXCEPT !.in_quotes = TRUE], pos + esc_len)
         ELSE IF self.buffer[pos + 1] = LF
         THEN GeneralStreamingParser_scan(GeneralStreamingParser_end_row(self, pos, pos + 1), pos + 1)
         ELSE IF self.buffer[pos + 1] = CR
         THEN IF pos + 1 < Len(self.buffer)
              THEN IF self.buffer[pos + 2] = LF
                   THEN GeneralStreamingParser_scan(GeneralStreamingParser_end_row(self, pos, pos + 2), pos + 2)
                   ELSE GeneralStreamingParser_scan(self, pos + 1)
              ELSE [self EXCEPT !.scan_pos = pos]
         ELSE GeneralStreamingParser_scan(self, pos + 1)

(* The result is the parser after the call and whether the call panicked; *)
(* the panic of "scan_pos -= partial_row_start" unwinds after the drain.   *)
GeneralStreamingParser_compact_buffer(self, overflow_checks) ==
    IF self.partial_row_start > 0
    THEN LET drained == [self EXCEPT !.buffer = Slice(@, self.partial_row_start, Len(@))]
             d == usize_sub(self.scan_pos, self.partial_row_start, overflow_checks) IN
         IF d.panic
         THEN [self |-> drained, panic |-> TRUE]
         ELSE [self |-> [drained EXCEPT !.scan_pos = d.value, !.partial_row_start = 0],
               panic |-> FALSE]
    ELSE [self |-> self, panic |-> FALSE]

GeneralStreamingParser_process_buffer(self, overflow_checks) ==
    LET s == GeneralStreamingParser_scan(self, self.scan_pos) IN
    IF s.partial_row_start > 0 /\ s.partial_row_start >= Len(s.buffer) \div 2
    THEN GeneralStreamingParser_compact_buffer(s, overflow_checks)
    ELSE [self |-> s, panic |-> FALSE]

GeneralStreamingParser_feed(self, chunk, overflow_checks) ==
    IF Len(self.buffer) + Len(chunk) > self.max_buffer_size
    THEN [self |-> self, overflow |-> TRUE, panic |-> FALSE]
    ELSE LET r == GeneralStreamingParser_process_buffer([self EXCEPT !.buffer = @ \o chunk], overflow_checks) IN
         [self |-> r.self, overflow |-> FALSE, panic |-> r.panic]

GeneralStreamingParser_set_max_buffer_size(self, max) == [self EXCEPT !.max_buffer_size = max]

GeneralStreamingParser_take_rows(self, max) ==
    LET take_count == Min(max, Len(self.complete_rows)) IN
    [self |-> [self EXCEPT !.complete_rows = SubSeq(@, take_count + 1, Len(@))],
     rows |-> SubSeq(self.complete_rows, 1, take_count)]

GeneralStreamingParser_finalize(self) ==
    LET s == IF self.partial_row_start < Len(self.buffer)
             THEN LET row == GeneralStreamingParser_parse_row_owned(self, self.partial_row_start, Len(self.buffer)) IN
                  [self EXCEPT !.complete_rows = IF row # <<>> THEN Append(@, row) ELSE @,
                               !.partial_row_start = Len(self.buffer)]
             ELSE self
    IN [self |-> [s EXCEPT !.complete_rows = <<>>], rows |-> s.complete_rows]

(***************************************************************************)
(* strategy/general.rs: GeneralStreamingParserNewlines                                                *)
(***************************************************************************)
GeneralStreamingParserNewlines_new(separators, escape, newlines) ==
    [kind |-> "GeneralNewlines",
     buffer |-> <<>>,
     complete_rows |-> <<>>,
     partial_row_start |-> 0,
     scan_pos |-> 0,
     in_quotes |-> FALSE,
     separators |-> separators,
     escape |-> escape,
     newlines |-> newlines,
     max_buffer_size |-> DEFAULT_MAX_BUFFER]

GeneralStreamingParserNewlines_parse_row_owned(self, start, end) ==
    IF start >= end THEN <<>>
    ELSE parse_line_fields_owned_general(Slice(self.buffer, start, end),
                                         self.separators, self.escape)

GeneralStreamingParserNewlines_end_row(self, row_end, next) ==
    LET row == GeneralStreamingParserNewlines_parse_row_owned(self, self.partial_row_start, row_end) IN
    [self EXCEPT !.complete_rows = IF row # <<>> THEN Append(@, row) ELSE @,
                 !.partial_row_start = next,
                 !.in_quotes = FALSE]

(* The while loop of process_buffer; it ends by saving scan_pos. *)
RECURSIVE GeneralStreamingParserNewlines_scan(_, _)
GeneralStreamingParserNewlines_scan(self, pos) ==
    LET esc_len == Len(self.escape)
        max_nl_len == max_pattern_len(self.newlines) IN
    IF ~usize_lt(pos, Len(self.buffer)) THEN [self EXCEPT !.scan_pos = pos]
    ELSE IF self.in_quotes
         THEN IF starts_with_escape(self.buffer, pos, self.escape)
              THEN IF starts_with_escape(self.buffer, pos + esc_len, self.escape)
                   THEN GeneralStreamingParserNewlines_scan(self, pos + 2 * esc_len)
                   ELSE GeneralStreamingParserNewlines_scan([self EXCEPT !.in_quotes = FALSE], pos + esc_len)
              ELSE GeneralStreamingParserNewlines_scan(self, pos + 1)
         ELSE IF starts_with_escape(self.buffer, pos, self.escape)
         THEN GeneralStreamingParserNewlines_scan([self EXCEPT !.in_quotes = TRUE], pos + esc_len)
         ELSE LET nl_len == match_newline(self.buffer, pos, self.newlines) IN
              IF pos + max_nl_len > Len(self.buffer)
              THEN IF nl_len > 0
                   THEN GeneralStreamingParserNewlines_scan(GeneralStreamingParserNewlines_end_row(self, pos, pos + nl_len), pos + nl_len)
                   ELSE [self EXCEPT !.scan_pos = pos]
              ELSE IF nl_len > 0
                   THEN GeneralStreamingParserNewlines_scan(GeneralStreamingParserNewlines_end_row(self, pos, pos + nl_len), pos + nl_len)
                   ELSE GeneralStreamingParserNewlines_scan(self, pos + 1)

(* The result is the parser after the call and whether the call panicked; *)
(* the panic of "scan_pos -= partial_row_start" unwinds after the drain.   *)
GeneralStreamingParserNewlines_compact_buffer(self, overflow_checks) ==
    IF self.partial_row_start > 0
    THEN LET drained == [self EXCEPT !.buffer = Slice(@, self.partial_row_start, Len(@))]
             d == usize_sub(self.scan_pos, self.partial_row_start, overflow_checks) IN
         IF d.panic
         THEN [self |-> drained, panic |-> TRUE]
         ELSE [self |-> [drained EXCEPT !.scan_pos = d.value, !.partial_row_start = 0],
               panic |-> FALSE]
    ELSE [self |-> self, panic |-> FALSE]

GeneralStreamingParserNewlines_process_buffer(self, overflow_checks) ==
    LET s == GeneralStreamingParserNewlines_scan(self, self.scan_pos) IN
    IF s.partial_row_start > 0 /\ s.partial_row_start >= Len(s.buffer) \div 2
    THEN GeneralStreamingParserNewlines_compact_buffer(s, overflow_checks)
    ELSE [self |-> s, panic |-> FALSE]

GeneralStreamingParserNewlines_feed(self, chunk, overflow_checks) ==
    IF Len(self.buffer) + Len(chunk) > self.max_buffer_size
    THEN [self |-> self, overflow |-> TRUE, panic |-> FALSE]
    ELSE LET r == GeneralStreamingParserNewlines_process_buffer([self EXCEPT !.buffer = @ \o chunk], overflow_checks) IN
         [self |-> r.self, overflow |-> FALSE, panic |-> r.panic]

GeneralStreamingParserNewlines_set_max_buffer_size(self, max) == [self EXCEPT !.max_buffer_size = max]

GeneralStreamingParserNewlines_take_rows(self, max) ==
    LET take_count == Min(max, Len(self.complete_rows)) IN
    [self |-> [self EXCEPT !.complete_rows = SubSeq(@, take_count + 1, Len(@))],
     rows |-> SubSeq(self.complete_rows, 1, take_count)]

GeneralStreamingParserNewlines_finalize(self) ==
    LET s == IF self.partial_row_start < Len(self.buffer)
             THEN LET row == GeneralStreamingParserNewlines_parse_row_owned(self, self.partial_row_start, Len(self.buffer)) IN
                  [self EXCEPT !.complete_rows = IF row # <<>> THEN Append(@, row) ELSE @,
                               !.partial_row_start = Len(self.buffer)]
             ELSE self
    IN [self |-> [s EXCEPT !.complete_rows = <<>>], rows |-> s.complete_rows]

(***************************************************************************)
(* resource.rs: StreamingParserEnum dispatches on the variant.             *)
(***************************************************************************)
StreamingParserEnum_feed(self, chunk, overflow_checks) ==
    CASE self.kind = "SingleByte" -> StreamingParser_feed(self, chunk, overflow_checks)
      [] self.kind = "General" -> GeneralStreamingParser_feed(self, chunk, overflow_checks)
      [] self.kind = "GeneralNewlines" -> GeneralStreamingParserNewlines_feed(self, chunk, overflow_checks)

StreamingParserEnum_set_max_buffer_size(self, max) ==
    CASE self.kind = "SingleByte" -> StreamingParser_set_max_buffer_size(self, max)
      [] self.kind = "General" -> GeneralStreamingParser_set_max_buffer_size(self, max)
      [] self.kind = "GeneralNewlines" -> GeneralStreamingParserNewlines_set_max_buffer_size(self, max)

StreamingParserEnum_take_rows(self, max) ==
    CASE self.kind = "SingleByte" -> StreamingParser_take_rows(self, max)
      [] self.kind = "General" -> GeneralStreamingParser_take_rows(self, max)
      [] self.kind = "GeneralNewlines" -> GeneralStreamingParserNewlines_take_rows(self, max)

StreamingParserEnum_finalize(self) ==
    CASE self.kind = "SingleByte" -> StreamingParser_finalize(self)
      [] self.kind = "General" -> GeneralStreamingParser_finalize(self)
      [] self.kind = "GeneralNewlines" -> GeneralStreamingParserNewlines_finalize(self)

StreamingParserEnum_available_rows(self) == Len(self.complete_rows)
StreamingParserEnum_has_partial(self) == self.partial_row_start < Len(self.buffer)
StreamingParserEnum_buffer_size(self) == Len(self.buffer)

(***************************************************************************)
(* The state machine: one parser resource driven through the NIF entry     *)
(* points of lib.rs.                                                       *)
(*   parser     the StreamingParserEnum behind the resource's mutex        *)
(*   poisoned   the mutex is poisoned: a call panicked while holding it    *)
(*   result     the outcome of the last call: "ok", or the error raised    *)
(*   fed        every byte a successful feed has appended, in order        *)
(*   delivered  every row returned by streaming_next_rows and              *)
(*              streaming_finalize, in order                               *)
(*   finalised  streaming_finalize has returned                            *)
(*   lateFeed   a feed has appended bytes after streaming_finalize         *)
(*   resumed    the last feed that was not rejected found the scan cursor  *)
(*              short of the buffer end: a byte was waiting for the next   *)
(*              chunk to decide what it is                                 *)
(***************************************************************************)
VARIABLES parser, poisoned, result, fed, delivered, finalised, lateFeed, resumed

vars == <<parser, poisoned, result, fed, delivered, finalised, lateFeed, resumed>>

(* The bytes the chunks are made of: the structural bytes of each          *)
(* configuration.  The bytes that are plain data to the scan are the       *)
(* separator, a CR that no LF follows, half of a two-byte escape and, with *)
(* custom newlines, an LF that no CR precedes.                             *)
Alphabet ==
    CASE parser.kind = "SingleByte" -> {COMMA, QUOTE, LF, CR}
      [] parser.kind = "General" -> {COMMA, DOLLAR, LF, CR}
      [] parser.kind = "GeneralNewlines" -> {QUOTE, LF, CR}

Chunks == BytesUpTo(Alphabet, MaxChunk)

Limits == {LowLimit, DEFAULT_MAX_BUFFER}

(* The custom newline sets of the GeneralNewlines configurations, as the   *)
(* caller lists them.                                                      *)
NewlineSets == { <<<<CR>>, <<CR, LF>>>>, <<<<CR, LF>>>> }

InitResource ==
    /\ poisoned = FALSE
    /\ result = "ok"
    /\ fed = <<>>
    /\ delivered = <<>>
    /\ finalised = FALSE
    /\ lateFeed = FALSE
    /\ resumed = FALSE

(* streaming_new() *)
Init ==
    /\ parser = StreamingParser_new
    /\ InitResource

(* streaming_new_with_config with a two-byte escape and default newlines *)
InitGeneral ==
    /\ parser = GeneralStreamingParser_new(<<<<COMMA>>>>, <<DOLLAR, DOLLAR>>)
    /\ InitResource

(* streaming_new_with_config with custom newlines *)
InitNewlines ==
    /\ \E nl \in NewlineSets :
          parser = GeneralStreamingParserNewlines_new(<<<<COMMA>>>>, <<QUOTE>>, Newlines_custom(nl))
    /\ InitResource

InitAll == Init \/ InitGeneral \/ InitNewlines

(* lock_parser failed: the call raises mutex_poisoned and changes nothing. *)
LockFailed ==
    /\ poisoned
    /\ result' = "mutex_poisoned"
    /\ UNCHANGED <<parser, poisoned, fed, delivered, finalised, lateFeed, resumed>>

(* streaming_feed; a panic inside the call poisons the mutex.  Whether the *)
(* build checks arithmetic overflow shows only in a call where a           *)
(* subtraction underflows, so the other build is tried for those calls     *)
(* alone.                                                                  *)
Feed(chunk) ==
    /\ Len(fed) + Len(chunk) <= MaxInput
    /\ \/ LockFailed
       \/ /\ ~poisoned
          /\ LET checked == StreamingParserEnum_feed(parser, chunk, TRUE) IN
             \E r \in IF checked.panic
                      THEN {checked, StreamingParserEnum_feed(parser, chunk, FALSE)}
                      ELSE {checked} :
                /\ parser' = r.self
                /\ poisoned' = r.panic
                /\ result' = IF r.overflow THEN "buffer_overflow"
                             ELSE IF r.panic THEN "panic" ELSE "ok"
                /\ fed' = IF r.overflow THEN fed ELSE fed \o chunk
                /\ lateFeed' = (lateFeed \/ (finalised /\ ~r.overflow))
                /\ resumed' = IF r.overflow THEN resumed
                              ELSE usize_lt(parser.scan_pos, Len(parser.buffer))
          /\ UNCHANGED <<delivered, finalised>>

(* streaming_next_rows *)
NextRows(max) ==
    \/ LockFailed
    \/ /\ ~poisoned
       /\ LET r == StreamingParserEnum_take_rows(parser, max) IN
          /\ parser' = r.self
          /\ delivered' = delivered \o r.rows
       /\ result' = "ok"
       /\ UNCHANGED <<poisoned, fed, finalised, lateFeed, resumed>>

(* streaming_finalize *)
Finalize ==
    \/ LockFailed
    \/ /\ ~poisoned
       /\ LET r == StreamingParserEnum_finalize(parser) IN
          /\ parser' = r.self
          /\ delivered' = delivered \o r.rows
       /\ finalised' = TRUE
       /\ result' = "ok"
       /\ UNCHANGED <<poisoned, fed, lateFeed, resumed>>

(* streaming_set_max_buffer *)
SetMaxBuffer(max) ==
    \/ LockFailed
    \/ /\ ~poisoned
       /\ parser' = StreamingParserEnum_set_max_buffer_size(parser, max)
       /\ result' = "ok"
       /\ UNCHANGED <<poisoned, fed, delivered, finalised, lateFeed, resumed>>

Next ==
    \/ \E chunk \in Chunks : Feed(chunk)
    \/ \E max \in 0..MaxTake : NextRows(max)
    \/ Finalize
    \/ \E max \in Limits : SetMaxBuffer(max)

Spec == Init /\ [][Next]_vars
SpecGeneral == InitGeneral /\ [][Next]_vars
SpecNewlines == InitNewlines /\ [][Next]_vars
SpecAll == InitAll /\ [][Next]_vars

(***************************************************************************)
(* Properties                                                              *)
(***************************************************************************)
(* A parser of the same configuration as it is right after construction. *)
Fresh(self) ==
    [self EXCEPT !.buffer = <<>>, !.complete_rows = <<>>, !.partial_row_start = 0,
                 !.scan_pos = 0, !.in_quotes = FALSE,
                 !.max_buffer_size = DEFAULT_MAX_BUFFER]

(* The rows delivered when the whole input is fed as one chunk and the    *)
(* parser is then finalised.                                               *)
OneShot(self, input) ==
    StreamingParserEnum_finalize(StreamingParserEnum_feed(Fresh(self), input, TRUE).self).rows

(* The whole input has been fed and the parser finalised, with no call     *)
(* after that which appended bytes.                                        *)
Finished == finalised /\ ~lateFeed /\ ~poisoned

(* The row of the direct reader that starts at pos has a zero-length line: *)
(* its terminator is the first thing in it.                                *)
LineIsEmptyAt(input, pos) ==
    \/ input[pos + 1] = LF
    \/ input[pos + 1] = CR /\ pos + 1 < Len(input) /\ input[pos + 2] = LF

(* The rows of parse_csv_full_with_config without those of zero-length     *)
(* lines.                                                                  *)
RECURSIVE DirectRowsOfNonEmptyLines(_, _, _, _, _)
DirectRowsOfNonEmptyLines(input, separator, escape, pos, rows) ==
    IF pos >= Len(input) THEN rows
    ELSE LET r == parse_row_cow_with_config(input, pos, separator, escape) IN
         DirectRowsOfNonEmptyLines(input, separator, escape, r[2],
             IF LineIsEmptyAt(input, pos) THEN rows ELSE Append(rows, r[1]))

(* C1, as stated: once every chunk has been fed and finalize has been      *)
(* called, the rows delivered by take_rows and finalize are exactly the    *)
(* rows of parse_csv_full_with_config for the concatenated input.          *)
C1_StreamingEqualsDirect ==
    Finished => delivered = parse_csv_full_with_config(fed, parser.separators[1], parser.escape)

(* C1, amended: the delivered rows are the rows of the direct reader for   *)
(* the concatenated input without the rows of zero-length lines, in the    *)
(* same order and with the same field bytes.                               *)
C1_StreamingEqualsDirectWithoutEmptyLines ==
    Finished => delivered = DirectRowsOfNonEmptyLines(fed, parser.separators[1], parser.escape, 0, <<>>)

(* An input with an empty line between two rows has been streamed. *)
C1_Witness ==
    /\ Finished
    /\ Len(delivered) >= 2
    /\ Len(parse_csv_full_with_config(fed, parser.separators[1], parser.escape)) > Len(delivered)

(* C2: the rows delivered by a default-mode parser for an input are those  *)
(* it delivers when the input arrives as one chunk, wherever the chunk     *)
(* boundaries fall.                                                        *)
C2_ChunkBoundariesDoNotMatter ==
    (Finished /\ parser.kind = "SingleByte") => delivered = OneShot(parser, fed)

(* The last chunk arrived while a CR at the end of the buffer was waiting, *)
(* the input holds a quoted field, and rows came out.                      *)
C2_Witness ==
    /\ Finished
    /\ resumed
    /\ Contains(fed, QUOTE)
    /\ Len(delivered) >= 1

(* C3: a feed that fails with the overflow error leaves the parser exactly *)
(* as it was: buffer, complete rows, scan cursor, row start, quote carry   *)
(* and everything else; this for each of the three parsers.                *)
C3_OverflowLeavesStateUnchanged ==
    [][result' = "buffer_overflow" =>
          /\ parser' = parser
          /\ UNCHANGED <<poisoned, fed, delivered, finalised, lateFeed, resumed>>]_vars

(* A feed was rejected by a parser with custom newlines that holds bytes  *)
(* it has not scanned to the end.                                         *)
C3_Witness ==
    /\ result = "buffer_overflow"
    /\ parser.kind = "GeneralNewlines"
    /\ Len(parser.buffer) > 0
    /\ usize_lt(parser.scan_pos, Len(parser.buffer))

(* C4, as stated: the buffer never holds more bytes than the limit in      *)
(* force.                                                                  *)
C4_BufferWithinLimit == Len(parser.buffer) <= parser.max_buffer_size

(* C4, amended: the buffer holds no more bytes than the limit in force     *)
(* after every feed that was not rejected, and a call that does not lower  *)
(* the limit never takes the buffer from within the limit to beyond it.    *)
C4_BufferWithinLimitUnlessLowered ==
    [][/\ (fed' # fed => Len(parser'.buffer) <= parser'.max_buffer_size)
       /\ (/\ Len(parser.buffer) <= parser.max_buffer_size
           /\ parser'.max_buffer_size >= parser.max_buffer_size
           => Len(parser'.buffer) <= parser'.max_buffer_size)]_vars

(* The buffer is full to the lowered limit and a feed was rejected for it. *)
C4_Witness ==
    /\ parser.max_buffer_size = LowLimit
    /\ Len(parser.buffer) = LowLimit
    /\ result = "buffer_overflow"

(* The row the parser builds from buffer[start..end]. *)
ParseRowOwned(self, start, end) ==
    CASE self.kind = "SingleByte" -> StreamingParser_parse_row_owned(self, start, end)
      [] self.kind = "General" -> GeneralStreamingParser_parse_row_owned(self, start, end)
      [] self.kind = "GeneralNewlines" -> GeneralStreamingParserNewlines_parse_row_owned(self, start, end)

(* Some field of the row holds the byte. *)
RowContains(row, byte) == \E i \in 1..Len(row) : Contains(row[i], byte)

(* The last byte of the buffer is a CR outside quotes. *)
PendingCR ==
    /\ ~finalised /\ ~poisoned
    /\ Len(parser.buffer) > 0
    /\ parser.buffer[Len(parser.buffer)] = CR
    /\ ~parser.in_quotes

(* C5: a CR outside quotes at the end of the buffer is not decided: no row *)
(* is emitted for it and the scan cursor stays on it.  When the next chunk *)
(* begins with LF the row ends before the CR; when it begins with another  *)
(* byte the CR is data of the row in progress.                             *)
C5_CrAtChunkEnd ==
    /\ [](PendingCR => /\ parser.scan_pos = Len(parser.buffer) - 1
                       /\ parser.partial_row_start <= parser.scan_pos)
    /\ [][(PendingCR /\ fed' # fed /\ ~poisoned') =>
            LET chunk == SubSeq(fed', Len(fed) + 1, Len(fed'))
                line == Slice(parser.buffer, parser.partial_row_start, Len(parser.buffer))
                k == Len(parser.complete_rows)
            IN IF chunk[1] = LF
               THEN Len(line) > 1 =>
                      /\ Len(parser'.complete_rows) > k
                      /\ parser'.complete_rows[k + 1] =
                             ParseRowOwned(parser, parser.partial_row_start, Len(parser.buffer) - 1)
               ELSE IF Len(parser'.complete_rows) > k
                    THEN \E e \in Len(line)..(Len(line) + Len(chunk)) :
                            parser'.complete_rows[k + 1] =
                                ParseRowOwned([parser EXCEPT !.buffer = line \o chunk], 0, e)
                    ELSE Slice(parser'.buffer, parser'.partial_row_start, Len(parser'.buffer))
                             = line \o chunk
          ]_vars

(* A chunk that begins with LF arrived while a CR was waiting, and the row *)
(* that came out holds no CR.                                              *)
C5_Witness ==
    /\ ~finalised
    /\ resumed
    /\ Len(fed) >= 3
    /\ fed[Len(fed)] = LF
    /\ fed[Len(fed) - 1] = CR
    /\ Len(parser.complete_rows) >= 1
    /\ ~RowContains(parser.complete_rows[Len(parser.complete_rows)], CR)

(* C6: take_rows(max) returns the first min(max, available_rows) queued    *)
(* rows and leaves the others queued in their order; no call loses,        *)
(* repeats or reorders a completed row; and the rows delivered and queued  *)
(* are, in input order, the first rows of the input.                       *)
C6_RowsDeliveredOnceInOrder ==
    /\ []((~lateFeed /\ ~poisoned) =>
            IsPrefix(delivered \o parser.complete_rows,
                     DirectRowsOfNonEmptyLines(fed, parser.separators[1], parser.escape, 0, <<>>)))
    /\ [][/\ \A max \in 0..MaxTake :
                (NextRows(max) /\ ~poisoned) =>
                    LET n == Min(max, Len(parser.complete_rows)) IN
                    /\ delivered' = delivered \o SubSeq(parser.complete_rows, 1, n)
                    /\ parser'.complete_rows = SubSeq(parser.complete_rows, n + 1, Len(parser.complete_rows))
          /\ IsPrefix(delivered, delivered')
          /\ IsPrefix(delivered \o parser.complete_rows, delivered' \o parser'.complete_rows)
         ]_vars

(* Some rows have been taken while others are still queued. *)
C6_Witness ==
    /\ ~finalised
    /\ Len(delivered) >= 1
    /\ Len(parser.complete_rows) >= 1

(* C7: finalize returns the queued rows followed, when bytes remain after  *)
(* the last row terminator, by exactly one row built from those bytes up   *)
(* to the buffer end; afterwards no row is available and no partial row is *)
(* left.                                                                   *)
C7_FinalizeReturnsQueuedThenPartial ==
    [][(Finalize /\ ~poisoned) =>
          LET last == IF StreamingParserEnum_has_partial(parser)
                      THEN <<ParseRowOwned(parser, parser.partial_row_start, Len(parser.buffer))>>
                      ELSE <<>>
          IN /\ delivered' = delivered \o parser.complete_rows \o last
             /\ \A i \in 1..Len(last) : last[i] # <<>>
             /\ StreamingParserEnum_available_rows(parser') = 0
             /\ ~StreamingParserEnum_has_partial(parser')
      ]_vars

(* finalize returned a queued row and the row of the bytes after the last  *)
(* terminator.                                                             *)
C7_Witness ==
    /\ Finished
    /\ result = "ok"
    /\ Len(delivered) >= 2
    /\ Len(fed) > 0
    /\ fed[Len(fed)] = COMMA
    /\ StreamingParserEnum_available_rows(parser) = 0
    /\ ~StreamingParserEnum_has_partial(parser)

(* C8: once finalize has been called no feed appends bytes or produces     *)
(* rows.                                                                   *)
C8_NoFeedAfterFinalize ==
    [][finalised => /\ fed' = fed
                    /\ Len(parser'.complete_rows) <= Len(parser.complete_rows)]_vars

(* C9: with custom newlines the rows delivered for an input are those      *)
(* delivered when the input arrives as one chunk, wherever the chunk       *)
(* boundaries fall.                                                        *)
C9_NewlineSplitDoesNotMatter ==
    (Finished /\ parser.kind = "GeneralNewlines") => delivered = OneShot(parser, fed)

(* C10: with a multi-byte escape the rows delivered for an input are those *)
(* delivered when the input arrives as one chunk, wherever the chunk       *)
(* boundaries fall.                                                        *)
C10_EscapeSplitDoesNotMatter ==
    (Finished /\ parser.kind = "General") => delivered = OneShot(parser, fed)

(***************************************************************************)
(* strategy/general.rs: the direct reader with custom newlines             *)
(***************************************************************************)
RECURSIVE parse_row_general_with_newlines_loop(_, _, _, _, _, _, _, _)
parse_row_general_with_newlines_loop(input, separators, escape, newlines, pos, field_start, in_quotes, fields) ==
    LET esc_len == Len(escape) IN
    IF pos >= Len(input)
    THEN <<IF field_start <= Len(input)
           THEN Append(fields, extract_field_cow_general(input, field_start, pos, escape))
           ELSE fields,
           pos>>
    ELSE IF in_quotes
         THEN IF starts_with_escape(input, pos, escape)
              THEN IF starts_with_escape(input, pos + esc_len, escape)
                   THEN parse_row_general_with_newlines_loop(input, separators, escape, newlines,
                            pos + 2 * esc_len, field_start, TRUE, fields)
                   ELSE parse_row_general_with_newlines_loop(input, separators, escape, newlines,
                            pos + esc_len, field_start, FALSE, fields)
              ELSE parse_row_general_with_newlines_loop(input, separators, escape, newlines,
                       pos + 1, field_start, TRUE, fields)
         ELSE IF starts_with_escape(input, pos, escape)
              THEN parse_row_general_with_newlines_loop(input, separators, escape, newlines,
                       pos + esc_len, field_start, TRUE, fields)
              ELSE LET sep_len == matches_separator(input, pos, separators) IN
                   IF sep_len > 0
                   THEN parse_row_general_with_newlines_loop(input, separators, escape, newlines,
                            pos + sep_len, pos + sep_len, FALSE,
                            Append(fields, extract_field_cow_general(input, field_start, pos, escape)))
                   ELSE LET nl_len == match_newline(input, pos, newlines) IN
                        IF nl_len > 0
                        THEN <<Append(fields, extract_field_cow_general(input, field_start, pos, escape)),
                               pos + nl_len>>
                        ELSE parse_row_general_with_newlines_loop(input, separators, escape, newlines,
                                 pos + 1, field_start, FALSE, fields)

(* Returns <<fields, next_pos>>. *)
parse_row_general_with_newlines(input, start, separators, escape, newlines) ==
    parse_row_general_with_newlines_loop(input, separators, escape, newlines, start, start, FALSE, <<>>)

RECURSIVE parse_csv_general_with_newlines_loop(_, _, _, _, _, _)
parse_csv_general_with_newlines_loop(input, separators, escape, newlines, pos, rows) ==
    IF pos >= Len(input) THEN rows
    ELSE LET r == parse_row_general_with_newlines(input, pos, separators, escape, newlines) IN
         parse_csv_general_with_newlines_loop(input, separators, escape, newlines, r[2], Append(rows, r[1]))

parse_csv_general_with_newlines(input, separators, escape, newlines) ==
    parse_csv_general_with_newlines_loop(input, separators, escape, newlines, 0, <<>>)

(***************************************************************************)
(* The readers of a whole input with custom newlines, as the conformance   *)
(* test runs them.  In these behaviours fed is the input of the call,      *)
(* result names the reader that ran and delivered holds the rows it        *)
(* returned.                                                               *)
(***************************************************************************)
(* The newline sets of the whole-input readers: those of the chunked       *)
(* parser and one with a short and a long pattern, like "|" and "<br>".    *)
WholeInputNewlineSets == NewlineSets \cup { <<<<LF>>, <<CR, CR, LF>>>> }

WholeInputs == BytesUpTo({COMMA, QUOTE, LF, CR}, MaxInput)

InitNewlineReaders ==
    /\ \E nl \in WholeInputNewlineSets :
          parser = GeneralStreamingParserNewlines_new(<<<<COMMA>>>>, <<QUOTE>>, Newlines_custom(nl))
    /\ fed \in WholeInputs
    /\ result = "ok"
    /\ delivered = <<>>
    /\ poisoned = FALSE
    /\ finalised = FALSE
    /\ lateFeed = FALSE
    /\ resumed = FALSE

(* parse_csv_general_with_newlines(input, &seps, &esc, &nl) *)
ReadDirectNewlines ==
    /\ result = "ok"
    /\ delivered' = parse_csv_general_with_newlines(fed, parser.separators, parser.escape, parser.newlines)
    /\ result' = "direct"
    /\ UNCHANGED <<parser, poisoned, fed, finalised, lateFeed, resumed>>

(* parser.feed(input).unwrap(); parser.take_rows(usize::MAX); parser.finalize() *)
ReadStreamingNewlines ==
    /\ result = "ok"
    /\ LET a == GeneralStreamingParserNewlines_feed(parser, fed, TRUE)
           t == GeneralStreamingParserNewlines_take_rows(a.self, Len(a.self.complete_rows))
           f == GeneralStreamingParserNewlines_finalize(t.self)
       IN /\ parser' = f.self
          /\ delivered' = t.rows \o f.rows
    /\ result' = "streaming"
    /\ finalised' = TRUE
    /\ UNCHANGED <<poisoned, fed, lateFeed, resumed>>

NextNewlineReaders == ReadDirectNewlines \/ ReadStreamingNewlines

SpecNewlineReaders == InitNewlineReaders /\ [][NextNewlineReaders]_vars

(* The filter of the conformance tests: the rows that are not one empty    *)
(* field.                                                                  *)
expected_nonempty(rows) ==
    SelectSeq(rows, LAMBDA row : ~(Len(row) = 1 /\ row[1] = <<>>))

(* C11: the rows the custom-newline streaming parser returns for a whole   *)
(* input fed at once and finalised are the rows of                         *)
(* parse_csv_general_with_newlines without the rows that are one empty     *)
(* field, in the same order.                                               *)
C11_StreamingNewlinesEqualsDirect ==
    result = "streaming" =>
        delivered = expected_nonempty(parse_csv_general_with_newlines(
                        fed, parser.separators, parser.escape, parser.newlines))

(***************************************************************************)
(* core/simd_scanner.rs: the structural scanner.  A u64 bitmask is the set *)
(* of its set bits, bit 0 being the lowest.                                *)
(***************************************************************************)
CHUNK == 16
WIDE == 32
U64_BITS == 64
FILL == 120

Bits(n) == 0..(n - 1)

shl(x, n) == {i + n : i \in x} \cap Bits(U64_BITS)

xor(x, y) == (x \ y) \cup (y \ x)

trailing_zeros(mask) == CHOOSE b \in mask : \A c \in mask : b <= c

prefix_xor(x) ==
    LET x1 == xor(x, shl(x, 1))
        x2 == xor(x1, shl(x1, 2))
        x4 == xor(x2, shl(x2, 4))
        x8 == xor(x4, shl(x4, 8))
        x16 == xor(x8, shl(x8, 16))
    IN xor(x16, shl(x16, 32))

RECURSIVE extract_positions(_, _, _)
extract_positions(mask, base_pos, out) ==
    IF mask = {} THEN out
    ELSE LET bit == trailing_zeros(mask) IN
         extract_positions(mask \ {bit}, base_pos, Append(out, base_pos + bit))

(* chunk.simd_eq(splat(byte)).to_bitmask() *)
simd_eq_bitmask(chunk, byte) == {i \in Bits(Len(chunk)) : chunk[i + 1] = byte}

(* emit_row_ends as it would be if it looked for the CR inside the chunk   *)
(* alone.                                                                  *)
RECURSIVE emit_row_ends_within_chunk(_, _, _, _)
emit_row_ends_within_chunk(input, chunk_start, lf_bits, out) ==
    IF lf_bits = {} THEN out
    ELSE LET bit == trailing_zeros(lf_bits)
             abs_pos == chunk_start + bit
             re == IF bit > 0 /\ input[abs_pos] = CR
                   THEN [pos |-> abs_pos - 1, len |-> 2]
                   ELSE [pos |-> abs_pos, len |-> 1]
         IN emit_row_ends_within_chunk(input, chunk_start, lf_bits \ {bit}, Append(out, re))

RECURSIVE emit_row_ends_unchecked_cr(_, _, _, _)
emit_row_ends_unchecked_cr(input, chunk_start, lf_bits, out) ==
    IF lf_bits = {} THEN out
    ELSE LET bit == trailing_zeros(lf_bits)
             abs_pos == chunk_start + bit
             re == IF abs_pos > 0
                   THEN [pos |-> abs_pos - 1, len |-> 2]
                   ELSE [pos |-> abs_pos, len |-> 1]
         IN emit_row_ends_unchecked_cr(input, chunk_start, lf_bits \ {bit}, Append(out, re))

RECURSIVE emit_row_ends(_, _, _, _)
emit_row_ends(input, chunk_start, lf_bits, out) ==
    IF lf_bits = {} THEN out
    ELSE LET bit == trailing_zeros(lf_bits)
             abs_pos == chunk_start + bit
             re == IF abs_pos > 0 /\ input[abs_pos] = CR
                   THEN [pos |-> abs_pos - 1, len |-> 2]
                   ELSE [pos |-> abs_pos, len |-> 1]
         IN emit_row_ends(input, chunk_start, lf_bits \ {bit}, Append(out, re))

is_sep_scalar(byte, separators) == \E k \in 1..Len(separators) : byte = separators[k]

(* s is [field_seps, row_ends]; returns s with in_quotes added. *)
RECURSIVE scan_scalar_tail(_, _, _, _, _, _)
scan_scalar_tail(input, pos, separators, escape, in_quotes, s) ==
    IF pos >= Len(input)
    THEN [field_seps |-> s.field_seps, row_ends |-> s.row_ends, in_quotes |-> in_quotes]
    ELSE LET byte == input[pos + 1] IN
         IF in_quotes
         THEN IF byte = escape
              THEN IF pos + 1 < Len(input) /\ input[pos + 2] = escape
                   THEN scan_scalar_tail(input, pos + 2, separators, escape, TRUE, s)
                   ELSE scan_scalar_tail(input, pos + 1, separators, escape, FALSE, s)
              ELSE scan_scalar_tail(input, pos + 1, separators, escape, TRUE, s)
         ELSE IF byte = escape
              THEN scan_scalar_tail(input, pos + 1, separators, escape, TRUE, s)
              ELSE IF byte = LF
                   THEN LET re == IF pos > 0 /\ input[pos] = CR
                                  THEN [pos |-> pos - 1, len |-> 2]
                                  ELSE [pos |-> pos, len |-> 1]
                        IN scan_scalar_tail(input, pos + 1, separators, escape, FALSE,
                               [s EXCEPT !.row_ends = Append(@, re)])
                   ELSE IF is_sep_scalar(byte, separators)
                        THEN scan_scalar_tail(input, pos + 1, separators, escape, FALSE,
                                 [s EXCEPT !.field_seps = Append(@, pos)])
                        ELSE scan_scalar_tail(input, pos + 1, separators, escape, FALSE, s)

RECURSIVE scan_vector_loop_without_carry(_, _, _, _, _)
scan_vector_loop_without_carry(input, separators, escape, width, s) ==
    IF s.pos + width > Len(input) THEN s
    ELSE LET MASK == Bits(width)
             chunk == Slice(input, s.pos, s.pos + width)
             esc_mask == simd_eq_bitmask(chunk, escape) \cap MASK
             not_quoted == MASK \ (prefix_xor(esc_mask) \cap MASK)
             sep_bits == UNION {simd_eq_bitmask(chunk, separators[k]) \cap MASK : k \in 1..Len(separators)}
             lf_bits == simd_eq_bitmask(chunk, LF) \cap not_quoted
         IN scan_vector_loop_without_carry(input, separators, escape, width,
                [pos |-> s.pos + width,
                 quote_carry |-> 0,
                 field_seps |-> extract_positions(sep_bits \cap not_quoted, s.pos, s.field_seps),
                 row_ends |-> emit_row_ends(input, s.pos, lf_bits, s.row_ends)])

(* One of the two vector loops of scan_structural; s is [pos, quote_carry, *)
(* field_seps, row_ends] and width is WIDE or CHUNK.                       *)
RECURSIVE scan_vector_loop(_, _, _, _, _)
scan_vector_loop(input, separators, escape, width, s) ==
    IF s.pos + width > Len(input) THEN s
    ELSE LET MASK == Bits(width)
             chunk == Slice(input, s.pos, s.pos + width)
             esc_mask == simd_eq_bitmask(chunk, escape) \cap MASK
             raw_quoted == prefix_xor(esc_mask) \cap MASK
             quoted == xor(raw_quoted, IF s.quote_carry = 1 THEN MASK ELSE {})
             not_quoted == MASK \ quoted
             sep_bits == UNION {simd_eq_bitmask(chunk, separators[k]) \cap MASK : k \in 1..Len(separators)}
             lf_bits == simd_eq_bitmask(chunk, LF) \cap not_quoted
         IN scan_vector_loop(input, separators, escape, width,
                [pos |-> s.pos + width,
                 quote_carry |-> (s.quote_carry + Cardinality(esc_mask)) % 2,
                 field_seps |-> extract_positions(sep_bits \cap not_quoted, s.pos, s.field_seps),
                 row_ends |-> emit_row_ends(input, s.pos, lf_bits, s.row_ends)])

(* avx2 tells whether the build has target_feature = "avx2". *)
scan_structural(input, separators, escape, avx2) ==
    LET s0 == [pos |-> 0, quote_carry |-> 0, field_seps |-> <<>>, row_ends |-> <<>>]
        s1 == IF avx2 THEN scan_vector_loop(input, separators, escape, WIDE, s0) ELSE s0
        s2 == scan_vector_loop(input, separators, escape, CHUNK, s1)
        t == scan_scalar_tail(input, s2.pos, separators, escape, s2.quote_carry # 0,
                              [field_seps |-> s2.field_seps, row_ends |-> s2.row_ends])
    IN [field_seps |-> t.field_seps, row_ends |-> t.row_ends, input_len |-> Len(input)]

(* scan_structural_incremental as it would be if it began outside quotes   *)
(* whatever carry it was given.                                            *)
scan_structural_incremental_drops_carry(input, start, separators, escape, in_quotes, s) ==
    LET s0 == [pos |-> start, quote_carry |-> 0,
               field_seps |-> s.field_seps, row_ends |-> s.row_ends]
        s1 == scan_vector_loop(input, separators, escape, CHUNK, s0)
    IN scan_scalar_tail(input, s1.pos, separators, escape, s1.quote_carry # 0,
                        [field_seps |-> s1.field_seps, row_ends |-> s1.row_ends])

(* s is the caller's [field_seps, row_ends]; the result is s with what the *)
(* scan appended and the in_quotes it returns.                             *)
scan_structural_incremental(input, start, separators, escape, in_quotes, s) ==
    LET s0 == [pos |-> start, quote_carry |-> IF in_quotes THEN 1 ELSE 0,
               field_seps |-> s.field_seps, row_ends |-> s.row_ends]
        s1 == scan_vector_loop(input, separators, escape, CHUNK, s0)
    IN scan_scalar_tail(input, s1.pos, separators, escape, s1.quote_carry # 0,
                        [field_seps |-> s1.field_seps, row_ends |-> s1.row_ends])

(***************************************************************************)
(* The scanner on whole inputs: a window of structural bytes placed next   *)
(* to the 16- and 32-byte chunk boundaries by filler bytes around it.      *)
(***************************************************************************)
Pad(n) == [i \in 1..n |-> FILL]

PrefixPads == {0, CHUNK - 2, WIDE - 2}

SuffixPads == {0, CHUNK}

ScanInputs == {Pad(p) \o w \o Pad(q) : p \in PrefixPads, w \in WholeInputs, q \in SuffixPads}

EmptyIndex == [field_seps |-> <<>>, row_ends |-> <<>>, input_len |-> 0]

InitScanner ==
    /\ \E avx2 \in BOOLEAN :
          parser = [kind |-> "Scanner", avx2 |-> avx2, separators |-> <<COMMA>>,
                    escape |-> QUOTE, index |-> EmptyIndex]
    /\ fed \in ScanInputs
    /\ result = "ok"
    /\ delivered = <<>>
    /\ poisoned = FALSE /\ finalised = FALSE /\ lateFeed = FALSE /\ resumed = FALSE

ScanStructural ==
    /\ result = "ok"
    /\ parser' = [parser EXCEPT !.index = scan_structural(fed, parser.separators, parser.escape, parser.avx2)]
    /\ result' = "scanned"
    /\ UNCHANGED <<fed, delivered, poisoned, finalised, lateFeed, resumed>>

(* The positions the doubled-escape state machine reads while in quotes:   *)
(* the quoted regions of the input, closing escapes included.              *)
RECURSIVE QuotedPositions(_, _, _, _)
QuotedPositions(input, escape, pos, in_quotes) ==
    IF pos >= Len(input) THEN {}
    ELSE IF in_quotes
         THEN IF input[pos + 1] = escape /\ pos + 1 < Len(input) /\ input[pos + 2] = escape
              THEN {pos, pos + 1} \cup QuotedPositions(input, escape, pos + 2, TRUE)
              ELSE {pos} \cup QuotedPositions(input, escape, pos + 1, input[pos + 1] # escape)
         ELSE QuotedPositions(input, escape, pos + 1, input[pos + 1] = escape)

Unquoted(input, escape) == Bits(Len(input)) \ QuotedPositions(input, escape, 0, FALSE)

StrictlyIncreasing(s) == \A i, j \in 1..Len(s) : i < j => s[i] < s[j]

Range(s) == {s[k] : k \in 1..Len(s)}


(***************************************************************************)
(* strategy/two_phase.rs: the indexed reader.  A FieldBound is a record    *)
(* [start, end].                                                           *)
(***************************************************************************)
(* The loop of parse_row_index_with_config; the result is (fields, pos).   *)
RECURSIVE parse_row_index_loop(_, _, _, _, _, _, _)
parse_row_index_loop(input, separator, escape, pos, field_start, in_quotes, fields) ==
    IF pos >= Len(input)
    THEN IF field_start < Len(input) \/ fields # <<>>
         THEN <<Append(fields, [start |-> field_start, end |-> Len(input)]), pos>>
         ELSE <<fields, pos>>
    ELSE LET byte == input[pos + 1] IN
         IF in_quotes
         THEN IF byte = escape
              THEN IF pos + 1 < Len(input) /\ input[pos + 2] = escape
                   THEN parse_row_index_loop(input, separator, escape, pos + 2, field_start, TRUE, fields)
                   ELSE parse_row_index_loop(input, separator, escape, pos + 1, field_start, FALSE, fields)
              ELSE parse_row_index_loop(input, separator, escape, pos + 1, field_start, TRUE, fields)
         ELSE IF byte = escape
         THEN parse_row_index_loop(input, separator, escape, pos + 1, field_start, TRUE, fields)
         ELSE IF byte = separator
         THEN parse_row_index_loop(input, separator, escape, pos + 1, pos + 1, FALSE,
                  Append(fields, [start |-> field_start, end |-> pos]))
         ELSE IF byte = LF
         THEN <<Append(fields, [start |-> field_start, end |-> pos]), pos + 1>>
         ELSE IF byte = CR
         THEN <<Append(fields, [start |-> field_start, end |-> pos]),
                IF pos + 1 < Len(input) /\ input[pos + 2] = LF THEN pos + 2 ELSE pos + 1>>
         ELSE parse_row_index_loop(input, separator, escape, pos + 1, field_start, FALSE, fields)

parse_row_index_with_config(input, start, separator, escape) ==
    parse_row_index_loop(input, separator, escape, start, start, FALSE, <<>>)

(* The loop of build_index_with_config over field_bounds. *)
RECURSIVE build_index_loop(_, _, _, _, _)
build_index_loop(input, separator, escape, pos, field_bounds) ==
    IF pos >= Len(input) THEN field_bounds
    ELSE LET r == parse_row_index_with_config(input, pos, separator, escape) IN
         build_index_loop(input, separator, escape, r[2],
             IF r[1] # <<>> THEN Append(field_bounds, r[1]) ELSE field_bounds)

build_index_with_config(input, separator, escape) ==
    [field_bounds |-> build_index_loop(input, separator, escape, 0, <<>>)]

extract_all_with_escape(input, index, escape) ==
    [r \in 1..Len(index.field_bounds) |->
        [f \in 1..Len(index.field_bounds[r]) |->
            extract_field_cow_with_escape(input, index.field_bounds[r][f].start,
                                          index.field_bounds[r][f].end, escape)]]

parse_csv_indexed_with_config(input, separator, escape) ==
    extract_all_with_escape(input, build_index_with_config(input, separator, escape), escape)

(***************************************************************************)
(* strategy/zero_copy.rs: the boundary reader.  A boundary is a pair       *)
(* <<start, end>>.                                                         *)
(***************************************************************************)
RECURSIVE parse_row_boundaries_loop(_, _, _, _, _, _, _)
parse_row_boundaries_loop(input, separator, escape, pos, field_start, in_quotes, boundaries) ==
    IF pos >= Len(input)
    THEN IF field_start < Len(input) \/ boundaries # <<>>
         THEN <<Append(boundaries, <<field_start, Len(input)>>), Len(input)>>
         ELSE <<boundaries, Len(input)>>
    ELSE LET byte == input[pos + 1] IN
         IF in_quotes
         THEN IF byte = escape
              THEN IF pos + 1 < Len(input) /\ input[pos + 2] = escape
                   THEN parse_row_boundaries_loop(input, separator, escape, pos + 2, field_start, TRUE, boundaries)
                   ELSE parse_row_boundaries_loop(input, separator, escape, pos + 1, field_start, FALSE, boundaries)
              ELSE parse_row_boundaries_loop(input, separator, escape, pos + 1, field_start, TRUE, boundaries)
         ELSE IF byte = escape
         THEN parse_row_boundaries_loop(input, separator, escape, pos + 1, field_start, TRUE, boundaries)
         ELSE IF byte = separator
         THEN parse_row_boundaries_loop(input, separator, escape, pos + 1, pos + 1, FALSE,
                  Append(boundaries, <<field_start, pos>>))
         ELSE IF byte = LF
         THEN <<Append(boundaries, <<field_start, pos>>), pos + 1>>
         ELSE IF byte = CR /\ pos + 1 < Len(input) /\ input[pos + 2] = LF
         THEN <<Append(boundaries, <<field_start, pos>>), pos + 2>>
         ELSE parse_row_boundaries_loop(input, separator, escape, pos + 1, field_start, FALSE, boundaries)

parse_row_boundaries(input, start, separator, escape) ==
    parse_row_boundaries_loop(input, separator, escape, start, start, FALSE, <<>>)

RECURSIVE parse_csv_boundaries_loop(_, _, _, _, _)
parse_csv_boundaries_loop(input, separator, escape, pos, rows) ==
    IF pos >= Len(input) THEN rows
    ELSE LET r == parse_row_boundaries(input, pos, separator, escape) IN
         parse_csv_boundaries_loop(input, separator, escape, r[2],
             IF r[1] # <<>> THEN Append(rows, r[1]) ELSE rows)

parse_csv_boundaries_with_config(input, separator, escape) ==
    parse_csv_boundaries_loop(input, separator, escape, 0, <<>>)

(* tests/conformance.rs: the field bytes that the boundaries stand for. *)
boundaries_to_strings(input, boundaries, escape) ==
    [r \in 1..Len(boundaries) |->
        [f \in 1..Len(boundaries[r]) |->
            extract_field_cow_with_escape(input, boundaries[r][f][1], boundaries[r][f][2], escape)]]

(***************************************************************************)
(* core/simd_index.rs: StructuralIndex and its iterators.  An iterator is  *)
(* a record of its fields; next returns [some, item, self], some = FALSE   *)
(* standing for None.                                                      *)
(***************************************************************************)
StructuralIndex_rows(index) == [row_idx |-> 0, pos |-> 0]

RowIter_next(index, self) ==
    IF self.row_idx < Len(index.row_ends)
    THEN LET re == index.row_ends[self.row_idx + 1]
             next == re.pos + re.len
         IN [some |-> TRUE, item |-> <<self.pos, re.pos, next>>,
             self |-> [row_idx |-> self.row_idx + 1, pos |-> next]]
    ELSE IF self.pos < index.input_len
         THEN [some |-> TRUE, item |-> <<self.pos, index.input_len, index.input_len>>,
               self |-> [self EXCEPT !.pos = index.input_len]]
         ELSE [some |-> FALSE, item |-> <<>>, self |-> self]

(* for (rs, re, next) in idx.rows(): the items in the order yielded. *)
RECURSIVE RowIter_collect(_, _, _)
RowIter_collect(index, self, items) ==
    LET n == RowIter_next(index, self) IN
    IF n.some THEN RowIter_collect(index, n.self, Append(items, n.item)) ELSE items

(***************************************************************************)
(* strategy/parallel.rs: the parallel reader.                              *)
(***************************************************************************)
RECURSIVE advance_sep_cursor(_, _, _)
advance_sep_cursor(field_seps, sep_cursor, re) ==
    IF sep_cursor < Len(field_seps) /\ field_seps[sep_cursor + 1] < re
    THEN advance_sep_cursor(field_seps, sep_cursor + 1, re)
    ELSE sep_cursor

(* Phase 2: the cursor walk; a row range is <<rs, re, sep_lo, sep_hi>>. *)
RECURSIVE parallel_row_ranges(_, _, _, _, _)
parallel_row_ranges(field_seps, rows, k, sep_cursor, row_ranges) ==
    IF k > Len(rows) THEN row_ranges
    ELSE LET hi == advance_sep_cursor(field_seps, sep_cursor, rows[k][2]) IN
         parallel_row_ranges(field_seps, rows, k + 1, hi,
             Append(row_ranges, <<rows[k][1], rows[k][2], sep_cursor, hi>>))

RECURSIVE parallel_row_fields(_, _, _, _, _, _, _)
parallel_row_fields(input, seps, k, pos, content_end, escape, fields) ==
    IF k > Len(seps)
    THEN Append(fields, extract_field_owned_with_escape(input, pos, content_end, escape))
    ELSE parallel_row_fields(input, seps, k + 1, seps[k] + 1, content_end, escape,
             Append(fields, extract_field_owned_with_escape(input, pos, seps[k], escape)))

(* Phase 3: the filter_map closure on one row range. *)
parallel_filter_map(input, field_seps, range, escape) ==
    IF range[2] <= range[1] THEN [some |-> FALSE, fields |-> <<>>]
    ELSE LET fields == parallel_row_fields(input, Slice(field_seps, range[3], range[4]), 1,
                                           range[1], range[2], escape, <<>>)
         IN IF Len(fields) = 1 /\ fields[1] = <<>>
            THEN [some |-> FALSE, fields |-> <<>>]
            ELSE [some |-> TRUE, fields |-> fields]

RECURSIVE parallel_collect_reversed(_, _, _)
parallel_collect_reversed(out, k, rows) ==
    IF k > Len(out) THEN rows
    ELSE parallel_collect_reversed(out, k + 1, IF out[k].some THEN <<out[k].fields>> \o rows ELSE rows)

(* collect(): the Some results in the order of the row ranges. *)
RECURSIVE parallel_collect(_, _, _)
parallel_collect(out, k, rows) ==
    IF k > Len(out) THEN rows
    ELSE parallel_collect(out, k + 1, IF out[k].some THEN Append(rows, out[k].fields) ELSE rows)

(***************************************************************************)
(* core/simd_index.rs: row_count and the field iterators.                  *)
(***************************************************************************)
StructuralIndex_row_count_ignores_input_len(index) ==
    Len(index.row_ends) + 1

StructuralIndex_row_count(index) ==
    LET n == Len(index.row_ends) IN
    IF n = 0
    THEN IF index.input_len > 0 THEN 1 ELSE 0
    ELSE LET last == index.row_ends[n]
             after_last == last.pos + last.len
         IN IF after_last < index.input_len THEN n + 1 ELSE n

(* slice.partition_point(|&s| s < bound) on a sorted slice *)
partition_point_lt(seps, bound) == Cardinality({k \in 1..Len(seps) : seps[k] < bound})

(* fields_in_row as it would be if the first separator it took were the    *)
(* first one past row_start.                                               *)
StructuralIndex_fields_in_row_past_start(index, row_start, row_content_end) ==
    LET lo == partition_point_lt(index.field_seps, row_start + 1)
        hi == partition_point_lt(index.field_seps, row_content_end)
    IN [seps |-> Slice(index.field_seps, lo, hi), row_start |-> row_start,
        row_content_end |-> row_content_end, idx |-> 0, done |-> FALSE]

StructuralIndex_fields_in_row(index, row_start, row_content_end) ==
    LET lo == partition_point_lt(index.field_seps, row_start)
        hi == partition_point_lt(index.field_seps, row_content_end)
    IN [seps |-> Slice(index.field_seps, lo, hi), row_start |-> row_start,
        row_content_end |-> row_content_end, idx |-> 0, done |-> FALSE]

StructuralIndex_rows_with_fields(index) == [row_idx |-> 0, pos |-> 0, sep_cursor |-> 0]

FieldIter_next(self) ==
    IF self.done THEN [some |-> FALSE, item |-> <<>>, self |-> self]
    ELSE LET field_start == IF self.idx = 0 THEN self.row_start ELSE self.seps[self.idx] + 1 IN
         IF self.idx < Len(self.seps)
         THEN [some |-> TRUE, item |-> <<field_start, self.seps[self.idx + 1]>>,
               self |-> [self EXCEPT !.idx = @ + 1]]
         ELSE [some |-> TRUE, item |-> <<field_start, self.row_content_end>>,
               self |-> [self EXCEPT !.done = TRUE]]

RECURSIVE FieldIter_collect(_, _)
FieldIter_collect(self, items) ==
    LET n == FieldIter_next(self) IN
    IF n.some THEN FieldIter_collect(n.self, Append(items, n.item)) ELSE items

(* RowFieldIter::next as it would be if every row's slice of separators    *)
(* started at the first separator.                                         *)
RowFieldIter_next_from_first_sep(index, self) ==
    LET has_end == self.row_idx < Len(index.row_ends)
        re == index.row_ends[self.row_idx + 1]
    IN IF ~has_end /\ ~(self.pos < index.input_len)
       THEN [some |-> FALSE, item |-> <<>>, self |-> self]
       ELSE LET start == self.pos
                content_end == IF has_end THEN re.pos ELSE index.input_len
                pos == IF has_end THEN re.pos + re.len ELSE index.input_len
                row_idx == IF has_end THEN self.row_idx + 1 ELSE self.row_idx
                sep_cursor == advance_sep_cursor(index.field_seps, self.sep_cursor, content_end)
            IN [some |-> TRUE,
                item |-> [start |-> start, content_end |-> content_end,
                          fields |-> [seps |-> Slice(index.field_seps, 0, sep_cursor),
                                      row_start |-> start, row_content_end |-> content_end,
                                      idx |-> 0, done |-> FALSE]],
                self |-> [row_idx |-> row_idx, pos |-> pos, sep_cursor |-> sep_cursor]]

RowFieldIter_next(index, self) ==
    LET has_end == self.row_idx < Len(index.row_ends)
        re == index.row_ends[self.row_idx + 1]
    IN IF ~has_end /\ ~(self.pos < index.input_len)
       THEN [some |-> FALSE, item |-> <<>>, self |-> self]
       ELSE LET start == self.pos
                content_end == IF has_end THEN re.pos ELSE index.input_len
                pos == IF has_end THEN re.pos + re.len ELSE index.input_len
                row_idx == IF has_end THEN self.row_idx + 1 ELSE self.row_idx
                sep_start == self.sep_cursor
                sep_cursor == advance_sep_cursor(index.field_seps, self.sep_cursor, content_end)
            IN [some |-> TRUE,
                item |-> [start |-> start, content_end |-> content_end,
                          fields |-> [seps |-> Slice(index.field_seps, sep_start, sep_cursor),
                                      row_start |-> start, row_content_end |-> content_end,
                                      idx |-> 0, done |-> FALSE]],
                self |-> [row_idx |-> row_idx, pos |-> pos, sep_cursor |-> sep_cursor]]

(* The rows in the order yielded, each with the fields its FieldIter yields. *)
RECURSIVE RowFieldIter_collect(_, _, _)
RowFieldIter_collect(index, self, items) ==
    LET n == RowFieldIter_next(index, self) IN
    IF n.some
    THEN RowFieldIter_collect(index, n.self,
             Append(items, [start |-> n.item.start, content_end |-> n.item.content_end,
                            fields |-> FieldIter_collect(n.item.fields, <<>>)]))
    ELSE items

(* rows() with fields_in_row() on each row *)
rows_then_fields_in_row(index) ==
    LET rows == RowIter_collect(index, StructuralIndex_rows(index), <<>>) IN
    [k \in 1..Len(rows) |->
        [start |-> rows[k][1], content_end |-> rows[k][2],
         fields |-> FieldIter_collect(StructuralIndex_fields_in_row(index, rows[k][1], rows[k][2]), <<>>)]]

(* The operations on the index that the scanner returned. *)
OnIndex(name, value) ==
    /\ result = "scanned"
    /\ result' = name
    /\ delivered' = value
    /\ UNCHANGED <<parser, fed, poisoned, finalised, lateFeed, resumed>>

RowCount == OnIndex("row_count", <<StructuralIndex_row_count(parser.index)>>)

IterateRows == OnIndex("rows", RowIter_collect(parser.index, StructuralIndex_rows(parser.index), <<>>))

IterateRowsWithFields ==
    OnIndex("rows_with_fields",
            RowFieldIter_collect(parser.index, StructuralIndex_rows_with_fields(parser.index), <<>>))

IterateFieldsInRow == OnIndex("fields_in_row", rows_then_fields_in_row(parser.index))

NextScanner ==
    \/ ScanStructural
    \/ RowCount
    \/ IterateRows
    \/ IterateRowsWithFields
    \/ IterateFieldsInRow

SpecScanner == InitScanner /\ [][NextScanner]_vars

(* C12: the field_seps of scan_structural are strictly increasing and are  *)
(* exactly the positions of the separator bytes outside quoted regions,    *)
(* wherever the 16- and 32-byte chunks and the scalar tail fall.           *)
C12_FieldSepsAreUnquotedSeparators ==
    result = "scanned" =>
        /\ StrictlyIncreasing(parser.index.field_seps)
        /\ Range(parser.index.field_seps) =
               {p \in Unquoted(fed, parser.escape) : is_sep_scalar(fed[p + 1], parser.separators)}

C12_Witness ==
    /\ result = "scanned"
    /\ Len(fed) >= 2 * CHUNK
    /\ fed[CHUNK] = QUOTE
    /\ fed[CHUNK + 1] = COMMA
    /\ CHUNK \in QuotedPositions(fed, parser.escape, 0, FALSE)
    /\ parser.index.field_seps = <<CHUNK - 2>>

(* C13: the row_ends of scan_structural are strictly increasing by         *)
(* position, each lies outside quotes, and the bytes input[pos..pos+len]   *)
(* are exactly LF (len 1) or CR LF (len 2).                                *)
C13_RowEndsAreUnquotedTerminators ==
    result = "scanned" =>
        LET row_ends == parser.index.row_ends IN
        /\ \A i, j \in 1..Len(row_ends) : i < j => row_ends[i].pos < row_ends[j].pos
        /\ \A k \in 1..Len(row_ends) :
              LET re == row_ends[k] IN
              /\ re.pos + re.len <= Len(fed)
              /\ \A p \in re.pos..(re.pos + re.len - 1) : p \in Unquoted(fed, parser.escape)
              /\ \/ re.len = 1 /\ Slice(fed, re.pos, re.pos + 1) = <<LF>>
                 \/ re.len = 2 /\ Slice(fed, re.pos, re.pos + 2) = <<CR, LF>>

C13_Witness ==
    /\ result = "scanned"
    /\ Len(fed) >= 2 * CHUNK
    /\ parser.index.row_ends = <<[pos |-> CHUNK - 2, len |-> 1], [pos |-> CHUNK - 1, len |-> 2]>>

RECURSIVE SumLen(_)
SumLen(seqs) == IF seqs = <<>> THEN 0 ELSE Len(Head(seqs)) + SumLen(Tail(seqs))

(* The end of the last terminator, 0 when the index has none. *)
AfterLastTerminator(index) ==
    IF index.row_ends = <<>> THEN 0
    ELSE index.row_ends[Len(index.row_ends)].pos + index.row_ends[Len(index.row_ends)].len

(* C19: on an index returned by the scanner, row_count() is the number of  *)
(* row_ends, plus one iff input_len exceeds the end of the last            *)
(* terminator; it is 0 for the empty input; and the row iterators yield    *)
(* that number of rows.                                                    *)
C19_RowCount ==
    LET index == parser.index
        row_count == StructuralIndex_row_count(index)
    IN /\ result = "row_count" =>
            /\ delivered[1] = Len(index.row_ends)
                              + (IF index.input_len > AfterLastTerminator(index) THEN 1 ELSE 0)
            /\ fed = <<>> => delivered[1] = 0
            /\ index.input_len = Len(fed)
       /\ result \in {"rows", "rows_with_fields", "fields_in_row"} => Len(delivered) = row_count

C19_Witness ==
    /\ result = "rows"
    /\ Len(delivered) = 3
    /\ Len(parser.index.row_ends) = 2
    /\ Len(fed) >= 2 * CHUNK
    /\ parser.index.row_ends[1].pos < CHUNK

(* C20: the fields yielded over all rows of the index number               *)
(* len(field_seps) + row_count; every separator of the index lies in       *)
(* exactly one row, and a row that holds k separators yields k + 1 fields. *)
C20_FieldCount ==
    result \in {"rows_with_fields", "fields_in_row"} =>
        LET index == parser.index
            SepsIn(row) == {k \in 1..Len(index.field_seps) :
                               row.start <= index.field_seps[k] /\ index.field_seps[k] < row.content_end}
        IN /\ SumLen([k \in 1..Len(delivered) |-> delivered[k].fields])
                  = Len(index.field_seps) + StructuralIndex_row_count(index)
           /\ \A k \in 1..Len(index.field_seps) :
                  Cardinality({r \in 1..Len(delivered) : k \in SepsIn(delivered[r])}) = 1
           /\ \A r \in 1..Len(delivered) :
                  Len(delivered[r].fields) = Cardinality(SepsIn(delivered[r])) + 1

C20_Witness ==
    /\ result = "rows_with_fields"
    /\ Len(delivered) = 2
    /\ Len(delivered[1].fields) = 2
    /\ Len(delivered[2].fields) = 3
    /\ Len(fed) >= 2 * CHUNK

(***************************************************************************)
(* The read strategies of the default mode on whole inputs                 *)
(* (tests/conformance.rs).  result names the strategy that has run and     *)
(* delivered holds the rows it returned.                                   *)
(***************************************************************************)
(* streaming_to_strings: feed, take_rows(usize::MAX), finalize. *)
streaming_to_strings(input, sep, escape) ==
    LET a == StreamingParser_feed(StreamingParser_with_config(sep, escape), input, TRUE)
        t == StreamingParser_take_rows(a.self, Len(a.self.complete_rows))
        f == StreamingParser_finalize(t.self)
    IN t.rows \o f.rows

(* Inputs that lie wholly in the scalar tail of the scanner, and inputs     *)
(* whose window lies across the end of the first 16-byte chunk.            *)
ReaderInputs == {Pad(p) \o w : p \in {0, CHUNK - 2}, w \in WholeInputs}

InitReaders ==
    /\ parser = [kind |-> "Readers", separator |-> COMMA, escape |-> QUOTE,
                 index |-> EmptyIndex, row_ranges |-> <<>>, out |-> <<>>]
    /\ fed \in ReaderInputs
    /\ result = "ok"
    /\ delivered = <<>>
    /\ poisoned = FALSE /\ finalised = FALSE /\ lateFeed = FALSE /\ resumed = FALSE

Returns(name, rows) ==
    /\ result = "ok"
    /\ result' = name
    /\ delivered' = rows
    /\ UNCHANGED <<parser, fed, poisoned, finalised, lateFeed, resumed>>

ReadDirect == Returns("direct", parse_csv_full_with_config(fed, parser.separator, parser.escape))

ReadIndexed == Returns("indexed", parse_csv_indexed_with_config(fed, parser.separator, parser.escape))

ReadBoundaries ==
    Returns("boundary",
            boundaries_to_strings(fed, parse_csv_boundaries_with_config(fed, parser.separator, parser.escape),
                                  parser.escape))

ReadStreaming == Returns("streaming", streaming_to_strings(fed, parser.separator, parser.escape))

(* parse_csv_parallel_with_config runs its phases in this order on the     *)
(* calling thread: the scan, the cursor walk, then the pool.  avx2 tells   *)
(* whether the build has the 32-byte loop.                                 *)
ParallelScan ==
    /\ result = "ok"
    /\ \E avx2 \in BOOLEAN :
          parser' = [parser EXCEPT !.index = scan_structural(fed, <<parser.separator>>, parser.escape, avx2)]
    /\ result' = "structural"
    /\ UNCHANGED <<fed, delivered, poisoned, finalised, lateFeed, resumed>>

ParallelWalk ==
    /\ result = "structural"
    /\ parser' = [parser EXCEPT !.row_ranges =
                      parallel_row_ranges(parser.index.field_seps,
                          RowIter_collect(parser.index, StructuralIndex_rows(parser.index), <<>>),
                          1, 0, <<>>)]
    /\ result' = "ranged"
    /\ UNCHANGED <<fed, delivered, poisoned, finalised, lateFeed, resumed>>

(* if row_ranges.is_empty() { return Vec::new() }, else the rows go to the *)
(* pool.                                                                   *)
ParallelSpawn ==
    /\ result = "ranged"
    /\ result' = IF parser.row_ranges = <<>> THEN "parallel" ELSE "extracting"
    /\ UNCHANGED <<parser, fed, delivered, poisoned, finalised, lateFeed, resumed>>

(* A worker of the pool runs the closure on a row range not yet done. *)
ParallelWorker ==
    /\ result = "extracting"
    /\ \E k \in (1..Len(parser.row_ranges)) \ DOMAIN parser.out :
          parser' = [parser EXCEPT !.out = @ @@ (k :> parallel_filter_map(fed, parser.index.field_seps,
                                                                         parser.row_ranges[k], parser.escape))]
    /\ UNCHANGED <<result, fed, delivered, poisoned, finalised, lateFeed, resumed>>

ParallelCollect ==
    /\ result = "extracting"
    /\ DOMAIN parser.out = 1..Len(parser.row_ranges)
    /\ delivered' = parallel_collect(parser.out, 1, <<>>)
    /\ result' = "parallel"
    /\ UNCHANGED <<parser, fed, poisoned, finalised, lateFeed, resumed>>

NextReaders ==
    \/ ReadDirect
    \/ ReadIndexed
    \/ ReadBoundaries
    \/ ReadStreaming
    \/ ParallelScan
    \/ ParallelWalk
    \/ ParallelSpawn
    \/ ParallelWorker
    \/ ParallelCollect

SpecReaders == InitReaders /\ [][NextReaders]_vars

Readers == {"direct", "indexed", "boundary", "parallel", "streaming"}

(* The positions of the LF bytes outside quotes. *)
UnquotedLFs(input, escape) == {p \in Unquoted(input, escape) : input[p + 1] = LF}

(* The positions of the CR bytes outside quotes not followed by LF. *)
BareCRs(input, escape) ==
    {p \in Unquoted(input, escape) :
        input[p + 1] = CR /\ ~(p + 1 < Len(input) /\ input[p + 2] = LF)}

RECURSIVE Flatten(_)
Flatten(seqs) == IF seqs = <<>> THEN <<>> ELSE Head(seqs) \o Flatten(Tail(seqs))

CountByte(s, byte) == Cardinality({i \in 1..Len(s) : s[i] = byte})

(* C14: in default newline mode no read strategy ends a row at a CR that   *)
(* is outside quotes and not immediately followed by LF: the rows are      *)
(* ended by unquoted LF only (at most one row more than there are          *)
(* unquoted LF), and every such CR is kept in the field data.              *)
C14_BareCrIsData ==
    result \in Readers =>
        /\ Len(delivered) <= Cardinality(UnquotedLFs(fed, parser.escape)) + 1
        /\ CountByte(Flatten(Flatten(delivered)), CR) >= Cardinality(BareCRs(fed, parser.escape))

(* C15: the parallel reader returns the rows of the direct reader without  *)
(* the rows that are one empty field, in the same order and with the same  *)
(* field bytes, whichever worker takes which row and in whatever order     *)
(* the workers finish.                                                     *)
C15_ParallelEqualsFilteredDirect ==
    result = "parallel" =>
        delivered = expected_nonempty(parse_csv_full_with_config(fed, parser.separator, parser.escape))

C15_Witness ==
    /\ result = "parallel"
    /\ Len(parser.row_ranges) >= 3
    /\ Len(delivered) = 2
    /\ Len(fed) > CHUNK
    /\ parser.out[Len(parser.out)].some

(* C16: the indexed reader returns the same rows and field bytes as the    *)
(* direct reader.                                                          *)
C16_IndexedEqualsDirect ==
    result = "indexed" =>
        delivered = parse_csv_full_with_config(fed, parser.separator, parser.escape)

(* C17: the parallel reader returns the rows that the streaming parser     *)
(* returns when the input is fed to it and it is finalized.                *)
C17_ParallelEqualsStreaming ==
    result = "parallel" =>
        delivered = streaming_to_strings(fed, parser.separator, parser.escape)

(***************************************************************************)
(* Buffer compaction: a StreamingParser next to one that takes the same    *)
(* calls and never compacts its buffer.  parser holds the two of them and  *)
(* the rows the second has returned; delivered holds the rows the first    *)
(* has returned.                                                           *)
(***************************************************************************)
(* process_buffer without its last statement, the call of compact_buffer. *)
StreamingParser_process_buffer_never_compacts(self) ==
    [self |-> StreamingParser_scan(self, self.scan_pos), panic |-> FALSE]

StreamingParser_feed_never_compacts(self, chunk) ==
    IF Len(self.buffer) + Len(chunk) > self.max_buffer_size
    THEN [self |-> self, overflow |-> TRUE, panic |-> FALSE]
    ELSE LET r == StreamingParser_process_buffer_never_compacts([self EXCEPT !.buffer = @ \o chunk]) IN
         [self |-> r.self, overflow |-> FALSE, panic |-> r.panic]

CompactionChunks == BytesUpTo({COMMA, QUOTE, LF, CR}, MaxChunk)

InitCompaction ==
    /\ parser = [kind |-> "Pair", real |-> StreamingParser_new,
                 reference |-> StreamingParser_new, reference_rows |-> <<>>]
    /\ InitResource

FeedBoth(chunk) ==
    /\ Len(fed) + Len(chunk) <= MaxInput
    /\ \/ LockFailed
       \/ /\ ~poisoned
          /\ LET checked == StreamingParser_feed(parser.real, chunk, TRUE)
                 n == StreamingParser_feed_never_compacts(parser.reference, chunk) IN
             \E r \in IF checked.panic
                      THEN {checked, StreamingParser_feed(parser.real, chunk, FALSE)}
                      ELSE {checked} :
                /\ parser' = [parser EXCEPT !.real = r.self, !.reference = n.self]
                /\ poisoned' = r.panic
                /\ result' = IF r.panic THEN "panic" ELSE "ok"
          /\ fed' = fed \o chunk
          /\ lateFeed' = (lateFeed \/ finalised)
          /\ UNCHANGED <<delivered, finalised, resumed>>

TakeBoth(max) ==
    \/ LockFailed
    \/ /\ ~poisoned
       /\ LET r == StreamingParser_take_rows(parser.real, max)
              n == StreamingParser_take_rows(parser.reference, max) IN
          /\ parser' = [parser EXCEPT !.real = r.self, !.reference = n.self,
                                      !.reference_rows = @ \o n.rows]
          /\ delivered' = delivered \o r.rows
       /\ result' = "ok"
       /\ UNCHANGED <<poisoned, fed, finalised, lateFeed, resumed>>

FinalizeBoth ==
    \/ LockFailed
    \/ /\ ~poisoned
       /\ LET r == StreamingParser_finalize(parser.real)
              n == StreamingParser_finalize(parser.reference) IN
          /\ parser' = [parser EXCEPT !.real = r.self, !.reference = n.self,
                                      !.reference_rows = @ \o n.rows]
          /\ delivered' = delivered \o r.rows
       /\ finalised' = TRUE
       /\ result' = "ok"
       /\ UNCHANGED <<poisoned, fed, lateFeed, resumed>>

NextCompaction ==
    \/ \E chunk \in CompactionChunks : FeedBoth(chunk)
    \/ \E max \in 0..MaxTake : TakeBoth(max)
    \/ FinalizeBoth

SpecCompaction == InitCompaction /\ [][NextCompaction]_vars

SameObservations ==
    /\ delivered = parser.reference_rows
    /\ StreamingParserEnum_available_rows(parser.real) = StreamingParserEnum_available_rows(parser.reference)
    /\ StreamingParserEnum_has_partial(parser.real) = StreamingParserEnum_has_partial(parser.reference)

(* C18: compaction is not observable but through buffer_bytes: after every *)
(* sequence of feed, take_rows and finalize no call has failed and the     *)
(* rows returned, available_rows and has_partial are those of a parser     *)
(* that took the same calls and never compacted its buffer.                *)
C18_CompactionUnobservable == ~poisoned /\ SameObservations

(***************************************************************************)
(* strategy/encode.rs: the encoders.  A writer is modelled by the bytes it *)
(* appends to its output buffer.                                           *)
(***************************************************************************)
(* The concatenation of a sequence of byte strings, in order. *)
RECURSIVE ConcatRange(_, _, _)
ConcatRange(seqs, lo, hi) ==
    IF lo > hi THEN <<>>
    ELSE IF lo = hi THEN seqs[lo]
    ELSE LET mid == (lo + hi) \div 2
         IN ConcatRange(seqs, lo, mid) \o ConcatRange(seqs, mid + 1, hi)

ConcatAll(seqs) == ConcatRange(seqs, 1, Len(seqs))

write_quoted_field_keeps_single_escape(field, escape) == <<escape>> \o field \o <<escape>>

write_quoted_field(field, escape) ==
    LET doubled[i \in 0..Len(field)] ==
            IF i >= Len(field) THEN <<>>
            ELSE (IF field[i + 1] = escape THEN <<field[i + 1], escape>> ELSE <<field[i + 1]>>)
                 \o doubled[i + 1]
    IN <<escape>> \o doubled[0] \o <<escape>>

write_quoted_field_general(field, escape) ==
    LET esc_len == Len(escape)
        doubled[i \in 0..Len(field)] ==
            IF i >= Len(field) THEN <<>>
            ELSE IF i + esc_len <= Len(field) /\ Slice(field, i, i + esc_len) = escape
                 THEN escape \o escape \o doubled[i + esc_len]
                 ELSE <<field[i + 1]>> \o doubled[i + 1]
    IN escape \o doubled[0] \o escape

field_needs_quoting_scalar(field, separator, escape) ==
    \E i \in 1..Len(field) :
        field[i] = separator \/ field[i] = escape \/ field[i] = LF \/ field[i] = CR

field_needs_quoting_scalar_multi_sep(field, separators, escape) ==
    \E i \in 1..Len(field) :
        field[i] = escape \/ field[i] = LF \/ field[i] = CR \/ Contains(separators, field[i])

(* windows_any is field.windows(pattern.len()).any(|w| w == pattern), for  *)
(* a field at least as long as the pattern.                                *)
field_needs_quoting_general(field, separator, escape) ==
    LET windows_any(pattern) ==
            \E i \in 0..(Len(field) - Len(pattern)) : Slice(field, i, i + Len(pattern)) = pattern
    IN \/ \E i \in 1..Len(field) : field[i] = LF \/ field[i] = CR
       \/ IF Len(separator) = 1 THEN Contains(field, separator[1])
          ELSE Len(field) >= Len(separator) /\ windows_any(separator)
       \/ IF Len(escape) = 1 THEN Contains(field, escape[1])
          ELSE Len(field) >= Len(escape) /\ windows_any(escape)

(* The row loop of the encode_csv_* functions: the fields of a row as      *)
(* write_field writes them, the separator before every field but the       *)
(* first, the line separator after every row.                              *)
encode_rows(rows, separator, line_separator, write_field(_)) ==
    ConcatAll([r \in 1..Len(rows) |->
        ConcatAll([i \in 1..Len(rows[r]) |->
            (IF i > 1 THEN separator ELSE <<>>) \o write_field(rows[r][i])])
        \o line_separator])

encode_csv_scalar(rows, separator, escape, line_separator) ==
    LET write_field(field) ==
            IF field_needs_quoting_scalar(field, separator, escape)
            THEN write_quoted_field(field, escape) ELSE field
    IN encode_rows(rows, <<separator>>, line_separator, write_field)

encode_csv_scalar_multi_sep(rows, separators, escape, line_separator) ==
    LET dump_sep == separators[1]
        write_field(field) ==
            IF field_needs_quoting_scalar_multi_sep(field, separators, escape)
            THEN write_quoted_field(field, escape) ELSE field
    IN encode_rows(rows, <<dump_sep>>, line_separator, write_field)

encode_csv_general(rows, separator, escape, line_separator) ==
    LET write_field(field) ==
            IF field_needs_quoting_general(field, separator, escape)
            THEN write_quoted_field_general(field, escape) ELSE field
    IN encode_rows(rows, separator, line_separator, write_field)

(***************************************************************************)
(* SWAR.  A u64 word is the sequence of its 8 bytes, least significant     *)
(* first, which is how u64::from_le_bytes reads it from the field.         *)
(***************************************************************************)
WORD == 8

HI == 128

(* (v.wrapping_sub(LO) & !v & HI) != 0: the subtraction of 0x01 from every *)
(* byte borrows from the next byte up when the byte is too small.  HI is   *)
(* written here as the value it has in each byte.                          *)
has_zero_byte(v) ==
    LET flagged[k \in 1..(WORD + 1), borrow \in 0..1] ==
            IF k > WORD THEN FALSE
            ELSE LET diff == v[k] - 1 - borrow IN
                 \/ (diff % 256 >= HI /\ v[k] < HI)
                 \/ flagged[k + 1, IF diff < 0 THEN 1 ELSE 0]
    IN flagged[1, 0]

(* has_zero_byte(word ^ broadcast(byte)); broadcast(byte) has the byte in  *)
(* each of the 8 positions, and ^ works bit by bit.                        *)
word_contains_byte(word, byte) ==
    LET broadcast == [k \in 1..WORD |-> byte]
        xor_byte[a \in 0..255, b \in 0..255] ==
            IF a = 0 THEN b
            ELSE IF b = 0 THEN a
            ELSE ((a + b) % 2) + 2 * xor_byte[a \div 2, b \div 2]
    IN has_zero_byte([k \in 1..WORD |-> xor_byte[word[k], broadcast[k]]])

field_needs_quoting_swar_bytewise_tail_only(field, separator, escape) ==
    LET len == Len(field)
        tail_start == len - (len % WORD)
    IN \E i \in tail_start..(len - 1) :
          field[i + 1] = separator \/ field[i + 1] = escape \/ field[i + 1] = LF \/ field[i + 1] = CR

field_needs_quoting_swar(field, separator, escape) ==
    LET len == Len(field)
        tail[i \in 0..len] ==
            IF i >= len THEN FALSE
            ELSE IF field[i + 1] = separator \/ field[i + 1] = escape
                    \/ field[i + 1] = LF \/ field[i + 1] = CR
                 THEN TRUE ELSE tail[i + 1]
        words[i \in 0..len] ==
            IF i + WORD <= len
            THEN LET word == Slice(field, i, i + WORD) IN
                 IF word_contains_byte(word, separator) \/ word_contains_byte(word, escape)
                    \/ word_contains_byte(word, LF) \/ word_contains_byte(word, CR)
                 THEN TRUE ELSE words[i + WORD]
            ELSE tail[i]
    IN words[0]

encode_csv_swar(rows, separator, escape, line_separator) ==
    LET write_field(field) ==
            IF field_needs_quoting_swar(field, separator, escape)
            THEN write_quoted_field(field, escape) ELSE field
    IN encode_rows(rows, <<separator>>, line_separator, write_field)

(***************************************************************************)
(* SIMD.  CHUNK and WIDE of strategy/encode.rs have the values of the      *)
(* scanner's; avx2 tells whether the build has the 32-byte loop.           *)
(***************************************************************************)
field_needs_quoting_simd_skips_tail(field, separator, escape, avx2) ==
    \E i \in 1..(Len(field) - (Len(field) % CHUNK)) :
        field[i] = separator \/ field[i] = escape \/ field[i] = LF \/ field[i] = CR

field_needs_quoting_simd(field, separator, escape, avx2) ==
    LET len == Len(field)
        hits(pos, width) ==
            (simd_eq_bitmask(Slice(field, pos, pos + width), separator)
             \cup simd_eq_bitmask(Slice(field, pos, pos + width), escape)
             \cup simd_eq_bitmask(Slice(field, pos, pos + width), LF)
             \cup simd_eq_bitmask(Slice(field, pos, pos + width), CR)) # {}
        tail[pos \in 0..len] ==
            IF pos >= len THEN FALSE
            ELSE IF field[pos + 1] = separator \/ field[pos + 1] = escape
                    \/ field[pos + 1] = LF \/ field[pos + 1] = CR
                 THEN TRUE ELSE tail[pos + 1]
        narrow[pos \in 0..len] ==
            IF pos + CHUNK <= len
            THEN IF hits(pos, CHUNK) THEN TRUE ELSE narrow[pos + CHUNK]
            ELSE tail[pos]
        wide[pos \in 0..len] ==
            IF pos + WIDE <= len
            THEN IF hits(pos, WIDE) THEN TRUE ELSE wide[pos + WIDE]
            ELSE narrow[pos]
    IN IF avx2 THEN wide[0] ELSE narrow[0]

encode_csv_simd(rows, separator, escape, line_separator, avx2) ==
    LET write_field(field) ==
            IF field_needs_quoting_simd(field, separator, escape, avx2)
            THEN write_quoted_field(field, escape) ELSE field
    IN encode_rows(rows, <<separator>>, line_separator, write_field)

field_needs_quoting_simd_multi_sep(field, separators, escape, avx2) ==
    LET len == Len(field)
        special(b) == b = escape \/ b = LF \/ b = CR \/ Contains(separators, b)
        hits(pos, width) == \E i \in Bits(width) : special(Slice(field, pos, pos + width)[i + 1])
        tail[pos \in 0..len] ==
            IF pos >= len THEN FALSE
            ELSE IF special(field[pos + 1]) THEN TRUE ELSE tail[pos + 1]
        narrow[pos \in 0..len] ==
            IF pos + CHUNK <= len
            THEN IF hits(pos, CHUNK) THEN TRUE ELSE narrow[pos + CHUNK]
            ELSE tail[pos]
        wide[pos \in 0..len] ==
            IF pos + WIDE <= len
            THEN IF hits(pos, WIDE) THEN TRUE ELSE wide[pos + WIDE]
            ELSE narrow[pos]
    IN IF avx2 THEN wide[0] ELSE narrow[0]

(***************************************************************************)
(* The encoders of strategy/encode.rs called on a row vector, as the       *)
(* tests of that file call them.                                           *)
(*   parser     the arguments: separators, escape, line_separator          *)
(*   fed        the rows                                                   *)
(*   result     "ok" before the call, then the name of the encoder called  *)
(*   delivered  the bytes returned                                         *)
(***************************************************************************)
MaxField == 3

SEMICOLON == 59

PIPE == 124

StructuralBytes(config) ==
    {config.separators[k][1] : k \in 1..Len(config.separators)}
    \cup {config.escape[1], config.line_separator[1], LF, CR}

(* Fields: a window of structural and plain bytes, alone or with filler    *)
(* before and after it so that it lies in the 8-byte words and the 16- and *)
(* 32-byte chunks, across their ends, and in the scalar tails.  The bytes  *)
(* next to the separator in value and the separator with its high bit set  *)
(* are what a word-wide test could mistake for it.                         *)
FieldWindows(config, n) == BytesUpTo(StructuralBytes(config) \cup {FILL}, n)

NearMisses(config) ==
    BytesUpTo({config.separators[1][1], config.separators[1][1] + 1,
               config.separators[1][1] + HI, config.escape[1] - 1}, 2)

Paddings ==
    {<<0, 0>>, <<WORD - 1, 0>>, <<WORD - 1, WORD>>, <<WORD, WORD - 1>>, <<CHUNK - 1, 0>>,
     <<CHUNK - 1, CHUNK>>, <<WIDE - 1, 0>>, <<WIDE - 1, WIDE>>}

EncoderFields(config) ==
    FieldWindows(config, MaxField)
    \cup {Pad(pq[1]) \o w \o Pad(pq[2]) :
            pq \in Paddings, w \in FieldWindows(config, MaxField - 1) \cup NearMisses(config)}

(* Tables of one or two rows of one or two short fields.                   *)
EncoderTables(config) ==
    LET fields == {<<>>, <<FILL>>} \cup {<<b>> : b \in StructuralBytes(config) \ {CR}}
        rows == {<<f>> : f \in fields} \cup {<<f, g>> : f \in fields, g \in fields}
    IN {<<r>> : r \in rows} \cup {<<r, q>> : r \in rows, q \in rows}

EncoderConfigs ==
    {[kind |-> "Encoder", separators |-> c[1], escape |-> c[2], line_separator |-> c[3]] :
        c \in {<<<<<<COMMA>>>>, <<QUOTE>>, <<LF>>>>,
               <<<<<<COMMA>>, <<SEMICOLON>>>>, <<QUOTE>>, <<LF>>>>,
               <<<<<<COMMA>>>>, <<DOLLAR, DOLLAR>>, <<LF>>>>,
               <<<<<<COMMA>>>>, <<QUOTE>>, <<CR, LF>>>>,
               <<<<<<COMMA>>>>, <<QUOTE>>, <<PIPE>>>>}}

InitEncoder ==
    /\ parser \in EncoderConfigs
    /\ fed \in {<<<<f>>>> : f \in EncoderFields(parser)} \cup EncoderTables(parser)
    /\ result = "ok"
    /\ delivered = <<>>
    /\ poisoned = FALSE
    /\ finalised = FALSE
    /\ lateFeed = FALSE
    /\ resumed = FALSE

(* The encoders that take bytes need a single-byte escape and single-byte  *)
(* separators; encode_csv_general takes one separator pattern.             *)
EncodeCsv(strategy) ==
    /\ result = "ok"
    /\ LET sep == parser.separators[1][1]
           esc == parser.escape[1]
           seps == [k \in 1..Len(parser.separators) |-> parser.separators[k][1]]
           ls == parser.line_separator
       IN CASE strategy = "scalar" ->
                 /\ Len(parser.escape) = 1 /\ Len(parser.separators) = 1
                 /\ delivered' = encode_csv_scalar(fed, sep, esc, ls)
            [] strategy = "swar" ->
                 /\ Len(parser.escape) = 1 /\ Len(parser.separators) = 1
                 /\ delivered' = encode_csv_swar(fed, sep, esc, ls)
            [] strategy = "simd" ->
                 /\ Len(parser.escape) = 1 /\ Len(parser.separators) = 1
                 /\ \E avx2 \in BOOLEAN : delivered' = encode_csv_simd(fed, sep, esc, ls, avx2)
            [] strategy = "scalar_multi_sep" ->
                 /\ Len(parser.escape) = 1
                 /\ delivered' = encode_csv_scalar_multi_sep(fed, seps, esc, ls)
            [] strategy = "general" ->
                 /\ Len(parser.separators) = 1
                 /\ delivered' = encode_csv_general(fed, parser.separators[1], parser.escape, ls)
    /\ result' = strategy
    /\ UNCHANGED <<parser, fed, poisoned, finalised, lateFeed, resumed>>

Strategies == {"scalar", "swar", "simd", "scalar_multi_sep", "general"}

NextEncoder == \E strategy \in Strategies : EncodeCsv(strategy)

SpecEncoder == InitEncoder /\ [][NextEncoder]_vars

(* The longest encoder output that is extracted from or parsed back.       *)
MaxParsed == 24

(* C21: extracting the bytes an encoder writes for a field returns the     *)
(* field, for single-byte and multi-byte escapes, whether or not the field *)
(* was quoted: extract(encode_field(x)) = x.  The field is the only one of *)
(* its row, so the encoder's output is the field as written followed by    *)
(* the line separator; outputs of at most MaxParsed bytes are read back.   *)
C21_ExtractInvertsEncodeField ==
    (result \in Strategies /\ Len(fed) = 1 /\ Len(fed[1]) = 1
        /\ Len(delivered) <= MaxParsed) =>
        LET x == fed[1][1]
            end == Len(delivered) - Len(parser.line_separator)
        IN /\ end >= 0
           /\ IF result = "general"
              THEN extract_field_cow_general(delivered, 0, end, parser.escape) = x
              ELSE extract_field_cow_with_escape(delivered, 0, end, parser.escape[1]) = x

C21_Witness ==
    /\ result = "general"
    /\ parser.escape = <<DOLLAR, DOLLAR>>
    /\ fed = <<<<<<DOLLAR, DOLLAR, DOLLAR>>>>>>
    /\ Len(delivered) = 10

(* A row of one empty field is written as an empty line, which some of the *)
(* parsers skip and others return as a row of one empty field: the rows    *)
(* are compared without them.                                              *)
RoundTripRows(rows) == SelectSeq(rows, LAMBDA row : row # <<<<>>>>)

(* The parse of the encoder's output under the configuration it was        *)
(* written with: the line separator "\n" or "\r\n" is read with the        *)
(* default newlines, any other as the one custom newline pattern.          *)
ParseEncoded ==
    LET newlines == IF parser.line_separator \in {<<LF>>, <<CR, LF>>}
                    THEN Newlines_default_newlines
                    ELSE Newlines_custom(<<parser.line_separator>>)
    IN IF result \in {"scalar", "swar", "simd"} /\ newlines.is_default
       THEN parse_csv_full_with_config(delivered, parser.separators[1][1], parser.escape[1])
       ELSE parse_csv_general_with_newlines(delivered, parser.separators, parser.escape, newlines)

(* C22: parsing what the encoder wrote, with the same separators, escape   *)
(* and row terminator, returns the rows that were encoded (less the rows   *)
(* the parser filters as empty lines): parse(encode(rows)) = rows, for     *)
(* every output of at most MaxParsed bytes.                                *)
C22_ParseInvertsEncode ==
    (result \in Strategies /\ Len(delivered) <= MaxParsed)
        => RoundTripRows(ParseEncoded) = RoundTripRows(fed)

(* C23: the scalar, SWAR and SIMD encoders write the same bytes for the    *)
(* same rows, and their classifiers (the multi-separator SIMD one and its  *)
(* scalar counterpart included) give the same answer for every field, in   *)
(* both builds of the SIMD tier.                                           *)
C23_TiersAgree ==
    LET sep == parser.separators[1][1]
        esc == parser.escape[1]
        seps == [k \in 1..Len(parser.separators) |-> parser.separators[k][1]]
    IN /\ result \in {"swar", "simd"} =>
            /\ delivered = encode_csv_scalar(fed, sep, esc, parser.line_separator)
            /\ \A r \in 1..Len(fed) : \A f \in 1..Len(fed[r]) : \A avx2 \in BOOLEAN :
                  /\ field_needs_quoting_swar(fed[r][f], sep, esc)
                        = field_needs_quoting_scalar(fed[r][f], sep, esc)
                  /\ field_needs_quoting_simd(fed[r][f], sep, esc, avx2)
                        = field_needs_quoting_scalar(fed[r][f], sep, esc)
       /\ result = "scalar_multi_sep" =>
            \A r \in 1..Len(fed) : \A f \in 1..Len(fed[r]) : \A avx2 \in BOOLEAN :
                field_needs_quoting_simd_multi_sep(fed[r][f], seps, esc, avx2)
                    = field_needs_quoting_scalar_multi_sep(fed[r][f], seps, esc)

C23_Witness ==
    /\ result = "swar"
    /\ fed = <<<<Pad(WORD - 1) \o <<COMMA + HI, COMMA>> \o Pad(WORD)>>>>
    /\ delivered[1] = QUOTE

(* A one-field row as the encoder wrote it: the field as it is, or between *)
(* two escapes and longer by the escapes doubled inside.                   *)
WrittenVerbatim == delivered = fed[1][1] \o parser.line_separator

WrittenQuoted ==
    LET esc == parser.escape
        written == Len(delivered) - Len(parser.line_separator)
    IN /\ written >= Len(fed[1][1]) + 2 * Len(esc)
       /\ StartsWithAt(delivered, 0, esc)
       /\ StartsWithAt(delivered, written - Len(esc), esc)
       /\ StartsWithAt(delivered, written, parser.line_separator)

HoldsPattern(field, pattern) == \E pos \in 0..Len(field) : StartsWithAt(field, pos, pattern)

(* The field holds a separator, the escape, 0x0A or 0x0D. *)
HoldsStructural(field) ==
    \/ \E k \in 1..Len(parser.separators) : HoldsPattern(field, parser.separators[k])
    \/ HoldsPattern(field, parser.escape)
    \/ Contains(field, LF) \/ Contains(field, CR)

(* Reserved sets a configuration could name: none, or the plain byte.      *)
ReservedSets == {{}, {FILL}}

slice_in_bounds(len, a, b) == a <= b /\ b <= len

(* The slices extract_field_cow_with_escape (escape of one byte) and       *)
(* extract_field_cow_general take before the unescape loop, as             *)
(* <<len, a, b>>, in the order and under the conditions the code takes     *)
(* them.                                                                   *)
extract_field_slices(input, start, end, escape) ==
    IF start >= end THEN {}
    ELSE LET len == end - start
             esc_len == Len(escape)
         IN {<<Len(input), start, end>>}
            \cup (IF len >= 2 * esc_len
                  THEN {<<len, 0, esc_len>>}
                       \cup (IF slice_in_bounds(Len(input), start, end)
                                /\ StartsWithAt(Slice(input, start, end), 0, escape)
                             THEN {<<len, len - esc_len, len>>}
                                  \cup (IF StartsWithAt(Slice(input, start, end), len - esc_len, escape)
                                        THEN {<<len, esc_len, len - esc_len>>}
                                        ELSE {})
                             ELSE {})
                  ELSE {})

(* The slices of the loop of unescape_field_general: those of the second   *)
(* and third operand of its condition, taken when the first holds.         *)
unescape_field_general_slices(inner, escape) ==
    {<<Len(inner), i + k * Len(escape), i + (k + 1) * Len(escape)>> :
        i \in {j \in 0..(Len(inner) - 1) : j + 2 * Len(escape) <= Len(inner)}, k \in 0..1}

MaxExtract == 6

ExtractInputs(escape) ==
    BytesUpTo({escape[1], FILL}, MaxExtract)
    \cup {[i \in 1..n |-> escape[1]] : n \in 0..(2 * MaxExtract)}

InitExtract ==
    /\ parser \in {[kind |-> "Extract", escape |-> esc] : esc \in {<<QUOTE>>, <<DOLLAR, DOLLAR>>}}
    /\ fed \in {[input |-> input, start |-> start, end |-> end] :
                    input \in ExtractInputs(parser.escape), start \in 0..(2 * MaxExtract),
                    end \in 0..(2 * MaxExtract)}
    /\ fed.start <= fed.end /\ fed.end <= Len(fed.input)
    /\ result = "ok"
    /\ delivered = <<>>
    /\ poisoned = FALSE
    /\ finalised = FALSE
    /\ lateFeed = FALSE
    /\ resumed = FALSE

(* One call of an extraction function; a slice out of bounds is a panic.   *)
Extract(function) ==
    /\ result = "ok"
    /\ LET input == fed.input
           start == fed.start
           end == fed.end
           escape == parser.escape
           slices ==
               CASE function = "extract_field_cow_with_escape" ->
                        extract_field_slices(input, start, end, escape)
                 [] function = "extract_field_cow_general" ->
                        extract_field_slices(input, start, end, escape)
                 [] function = "unescape_field_general" ->
                        {<<Len(input), start, end>>}
                        \cup unescape_field_general_slices(Slice(input, start, end), escape)
           output ==
               CASE function = "extract_field_cow_with_escape" ->
                        extract_field_cow_with_escape(input, start, end, escape[1])
                 [] function = "extract_field_cow_general" ->
                        extract_field_cow_general(input, start, end, escape)
                 [] function = "unescape_field_general" ->
                        unescape_field_general(Slice(input, start, end), escape)
       IN /\ function = "extract_field_cow_with_escape" => Len(escape) = 1
          /\ IF \A s \in slices : slice_in_bounds(s[1], s[2], s[3])
             THEN result' = function /\ delivered' = output
             ELSE result' = "panic" /\ delivered' = <<>>
    /\ UNCHANGED <<parser, fed, poisoned, finalised, lateFeed, resumed>>

ExtractFunctions ==
    {"extract_field_cow_with_escape", "extract_field_cow_general", "unescape_field_general"}

NextExtract == \E function \in ExtractFunctions : Extract(function)

SpecExtract == InitExtract /\ [][NextExtract]_vars

(* The inner of a quoted field with its escapes collapsed, told by where a *)
(* byte stands in its run of escape bytes: of a run that holds n escape    *)
(* patterns the first of every adjacent pair of patterns stays, the second *)
(* goes, and what is left after the last whole pair stays.  For an escape  *)
(* pattern that repeats one byte.                                          *)
CollapsePairs(inner, escape) ==
    LET e == escape[1]
        pair == 2 * Len(escape)
        run_start[i \in 1..Len(inner)] ==
            IF inner[i] # e \/ i = 1 THEN i
            ELSE IF inner[i - 1] # e THEN i ELSE run_start[i - 1]
        run_end[i \in 1..Len(inner)] ==
            IF inner[i] # e \/ i = Len(inner) THEN i
            ELSE IF inner[i + 1] # e THEN i ELSE run_end[i + 1]
        stays(i) ==
            \/ inner[i] # e
            \/ LET k == i - run_start[i]
                   n == run_end[i] - run_start[i] + 1
               IN k % pair < Len(escape) \/ k >= pair * (n \div pair)
        collapsed[i \in 0..Len(inner)] ==
            IF i = 0 THEN <<>>
            ELSE IF stays(i) THEN Append(collapsed[i - 1], inner[i]) ELSE collapsed[i - 1]
    IN collapsed[Len(inner)]

(* C25: extraction panics for no input and no bounds with                  *)
(* start <= end <= input length; a field between two escapes comes back as *)
(* its inner with every adjacent pair of escapes collapsed to one, left to *)
(* right, and a trailing single escape of an odd run kept; any other field *)
(* comes back as it is.                                                    *)
C25_ExtractionCollapsesPairs ==
    /\ result # "panic"
    /\ result \in ExtractFunctions =>
          LET field == Slice(fed.input, fed.start, fed.end)
              esc_len == Len(parser.escape)
              quoted == /\ Len(field) >= 2 * esc_len
                        /\ StartsWithAt(field, 0, parser.escape)
                        /\ StartsWithAt(field, Len(field) - esc_len, parser.escape)
          IN delivered = IF result = "unescape_field_general"
                         THEN CollapsePairs(field, parser.escape)
                         ELSE IF quoted
                         THEN CollapsePairs(Slice(field, esc_len, Len(field) - esc_len),
                                            parser.escape)
                         ELSE field

C25_Witness ==
    /\ result = "extract_field_cow_general"
    /\ parser.escape = <<DOLLAR, DOLLAR>>
    /\ fed = [input |-> [i \in 1..12 |-> DOLLAR], start |-> 1, end |-> 11]
    /\ delivered = <<DOLLAR, DOLLAR, DOLLAR, DOLLAR>>

(***************************************************************************)
(* Inputs of 4 GiB and more.  A usize is kept as the pair <<high, low>> of *)
(* its bits above and below 2^32, and such an input as its length / 2^32   *)
(* (wraps) and its last length % 2^32 bytes (tail); the bytes before the   *)
(* tail are plain.  2^32 is a multiple of both chunk widths, so the vector *)
(* loops of scan_structural come to the tail at a chunk start with         *)
(* quote_carry = 0 and nothing emitted, and go on as on the tail alone.    *)
(***************************************************************************)
(* `x as u32` of a usize. *)
as_u32(x) == x[2]

(* scan_structural on such an input: every position goes through          *)
(* `pos as u32` (base, row ends) and input_len through                     *)
(* `input.len() as u32`.                                                   *)
scan_structural_long(input, separators, escape, avx2) ==
    LET index == scan_structural(input.tail, separators, escape, avx2)
    IN [field_seps |-> [k \in 1..Len(index.field_seps) |->
                            as_u32(<<input.wraps, index.field_seps[k]>>)],
        row_ends |-> [k \in 1..Len(index.row_ends) |->
                          [index.row_ends[k] EXCEPT !.pos = as_u32(<<input.wraps, @>>)]],
        input_len |-> as_u32(<<input.wraps, Len(input.tail)>>)]

InitLongInput ==
    /\ \E avx2 \in BOOLEAN :
          parser = [kind |-> "LongInput", avx2 |-> avx2, separators |-> <<COMMA>>,
                    escape |-> QUOTE, index |-> EmptyIndex]
    /\ fed \in {[wraps |-> wraps, tail |-> tail] : wraps \in 0..1, tail \in WholeInputs}
    /\ result = "ok"
    /\ delivered = <<>>
    /\ poisoned = FALSE /\ finalised = FALSE /\ lateFeed = FALSE /\ resumed = FALSE

(* scan_structural, called directly or as phase 1 of                       *)
(* parse_csv_parallel_with_config: neither tests input.len().              *)
ScanLongInput(entry) ==
    /\ result = "ok"
    /\ parser' = [parser EXCEPT !.index =
                      scan_structural_long(fed, parser.separators, parser.escape, parser.avx2)]
    /\ result' = entry
    /\ UNCHANGED <<fed, delivered, poisoned, finalised, lateFeed, resumed>>

LongInputEntries == {"scan_structural", "parse_csv_parallel_with_config"}

NextLongInput == \E entry \in LongInputEntries : ScanLongInput(entry)

SpecLongInput == InitLongInput /\ [][NextLongInput]_vars

(* C26: an input of 2^32 bytes or more is rejected at the entry point: an  *)
(* index is built only for shorter inputs, so its input_len and positions  *)
(* are the true lengths and offsets.                                       *)
C26_LongInputRejected ==
    result \in LongInputEntries => fed.wraps = 0

(***************************************************************************)
(* strategy/encoding.rs: UTF-8 to the target encodings.  A target is one   *)
(* of "Utf8", "Latin1", "Utf16Le", "Utf16Be", "Utf32Le", "Utf32Be".        *)
(***************************************************************************)
(* std::str::from_utf8 followed by chars(): the code points of a           *)
(* well-formed UTF-8 string (shortest form, no surrogates, at most         *)
(* U+10FFFF), or ok = FALSE.                                               *)
from_utf8(input) ==
    LET len == Len(input)
        decode[i \in 0..len] ==
            IF i >= len THEN [ok |-> TRUE, chars |-> <<>>]
            ELSE LET b0 == input[i + 1]
                     width == IF b0 < 128 THEN 1
                              ELSE IF b0 \in 194..223 THEN 2
                              ELSE IF b0 \in 224..239 THEN 3
                              ELSE IF b0 \in 240..244 THEN 4
                              ELSE 0
                     low(k) == input[i + k + 1] - 128
                 IN IF \/ width = 0
                       \/ i + width > len
                       \/ \E k \in 1..(width - 1) : input[i + k + 1] \notin 128..191
                       \/ (b0 = 224 /\ input[i + 2] < 160)
                       \/ (b0 = 237 /\ input[i + 2] > 159)
                       \/ (b0 = 240 /\ input[i + 2] < 144)
                       \/ (b0 = 244 /\ input[i + 2] > 143)
                    THEN [ok |-> FALSE, chars |-> <<>>]
                    ELSE LET cp == CASE width = 1 -> b0
                                     [] width = 2 -> (b0 - 192) * 64 + low(1)
                                     [] width = 3 -> (b0 - 224) * 4096 + low(1) * 64 + low(2)
                                     [] width = 4 -> (b0 - 240) * 262144 + low(1) * 4096
                                                     + low(2) * 64 + low(3)
                             rest == decode[i + width]
                         IN IF rest.ok THEN [ok |-> TRUE, chars |-> <<cp>> \o rest.chars]
                            ELSE rest
    IN decode[0]

utf8_to_latin1(input) ==
    IF \A i \in 1..Len(input) : input[i] < 128 THEN input
    ELSE LET s == from_utf8(input) IN
         IF ~s.ok THEN input
         ELSE [i \in 1..Len(s.chars) |-> IF s.chars[i] <= 255 THEN s.chars[i] ELSE 63]

utf8_to_utf16(input, big_endian) ==
    LET s == from_utf8(input)
        units(cp) == IF cp < 65536 THEN <<cp>>
                     ELSE <<55296 + ((cp - 65536) \div 1024), 56320 + ((cp - 65536) % 1024)>>
        bytes(unit) == IF big_endian THEN <<unit \div 256, unit % 256>>
                       ELSE <<unit % 256, unit \div 256>>
        unit_bytes(u) == ConcatAll([k \in 1..Len(u) |-> bytes(u[k])])
    IN IF ~s.ok THEN input
       ELSE ConcatAll([i \in 1..Len(s.chars) |-> unit_bytes(units(s.chars[i]))])

utf8_to_utf32(input, big_endian) ==
    LET s == from_utf8(input)
        le(cp) == <<cp % 256, (cp \div 256) % 256, (cp \div 65536) % 256, cp \div 16777216>>
        bytes(cp) == IF big_endian THEN <<le(cp)[4], le(cp)[3], le(cp)[2], le(cp)[1]>> ELSE le(cp)
    IN IF ~s.ok THEN input
       ELSE ConcatAll([i \in 1..Len(s.chars) |-> bytes(s.chars[i])])

encode_utf8_to_target(input, target) ==
    CASE target = "Utf8" -> input
      [] target = "Latin1" -> utf8_to_latin1(input)
      [] target = "Utf16Le" -> utf8_to_utf16(input, FALSE)
      [] target = "Utf16Be" -> utf8_to_utf16(input, TRUE)
      [] target = "Utf32Le" -> utf8_to_utf32(input, FALSE)
      [] target = "Utf32Be" -> utf8_to_utf32(input, TRUE)

(* The bytes encode_utf8_extend appends to `out`: extend_latin1,           *)
(* extend_utf16 and extend_utf32 make the conversions of utf8_to_latin1,   *)
(* utf8_to_utf16 and utf8_to_utf32.                                        *)
encode_utf8_extend(input, target) ==
    CASE target = "Utf8" -> input
      [] target = "Latin1" -> utf8_to_latin1(input)
      [] target = "Utf16Le" -> utf8_to_utf16(input, FALSE)
      [] target = "Utf16Be" -> utf8_to_utf16(input, TRUE)
      [] target = "Utf32Le" -> utf8_to_utf32(input, FALSE)
      [] target = "Utf32Be" -> utf8_to_utf32(input, TRUE)

(***************************************************************************)
(* lib.rs: the encode_string NIFs.  Separators and escape are byte         *)
(* patterns; formula is the list of rules <<trigger, replacement>>.        *)
(***************************************************************************)
is_all_single_byte(separators, escape) ==
    Len(escape) = 1 /\ \A k \in 1..Len(separators) : Len(separators[k]) = 1

single_byte_seps(separators) == [k \in 1..Len(separators) |-> separators[k][1]]

FormulaConfig_check_last_rule(formula, field) ==
    IF field = <<>> \/ \A k \in 1..Len(formula) : formula[k][1] # field[1]
    THEN [some |-> FALSE, prefix |-> <<>>]
    ELSE [some |-> TRUE, prefix |-> formula[Len(formula)][2]]

FormulaConfig_check(formula, field) ==
    IF field = <<>> THEN [some |-> FALSE, prefix |-> <<>>]
    ELSE LET first == field[1]
             rule[k \in 1..(Len(formula) + 1)] ==
                 IF k > Len(formula) THEN [some |-> FALSE, prefix |-> <<>>]
                 ELSE IF first = formula[k][1] THEN [some |-> TRUE, prefix |-> formula[k][2]]
                 ELSE rule[k + 1]
         IN rule[1]

(* strategy::encode::write_quoted_field_inner and                          *)
(* write_quoted_field_inner_general: the field with every escape (pattern) *)
(* doubled, without the escapes around it.                                 *)
write_quoted_field_inner(field, escape) ==
    ConcatAll([i \in 1..Len(field) |->
                  IF field[i] = escape THEN <<escape, escape>> ELSE <<field[i]>>])

write_quoted_field_inner_general(field, escape) ==
    LET esc_len == Len(escape)
        doubled[i \in 0..Len(field)] ==
            IF i >= Len(field) THEN <<>>
            ELSE IF StartsWithAt(field, i, escape)
                 THEN escape \o escape \o doubled[i + esc_len]
                 ELSE <<field[i + 1]>> \o doubled[i + 1]
    IN doubled[0]

(* needs_quoting of the sequential encoders: the SIMD classifiers on the   *)
(* single-byte path, field_needs_quoting_general with the first separator  *)
(* pattern on the general path.                                            *)
encode_string_needs_quoting(field, separators, escape, avx2) ==
    IF is_all_single_byte(separators, escape)
    THEN IF Len(single_byte_seps(separators)) > 1
         THEN field_needs_quoting_simd_multi_sep(field, single_byte_seps(separators), escape[1], avx2)
         ELSE field_needs_quoting_simd(field, single_byte_seps(separators)[1], escape[1], avx2)
    ELSE field_needs_quoting_general(field, separators[1], escape)

(* write_quoted_field on the single-byte path, write_quoted_field_general  *)
(* on the general path; likewise for the inner.                            *)
encode_string_quoted(field, separators, escape) ==
    IF is_all_single_byte(separators, escape)
    THEN write_quoted_field(field, escape[1])
    ELSE write_quoted_field_general(field, escape)

encode_string_quoted_inner(field, separators, escape) ==
    IF is_all_single_byte(separators, escape)
    THEN write_quoted_field_inner(field, escape[1])
    ELSE write_quoted_field_inner_general(field, escape)

encode_string_none(rows, separators, escape, line_separator, avx2) ==
    LET write_field(field) ==
            IF encode_string_needs_quoting(field, separators, escape, avx2)
            THEN encode_string_quoted(field, separators, escape)
            ELSE field
    IN encode_rows(rows, separators[1], line_separator, write_field)

encode_string_formula(rows, separators, escape, line_separator, formula, avx2) ==
    LET write_field(field) ==
            LET needs_quoting == encode_string_needs_quoting(field, separators, escape, avx2)
                check == FormulaConfig_check(formula, field)
            IN IF check.some
               THEN IF needs_quoting
                    THEN escape \o check.prefix
                         \o encode_string_quoted_inner(field, separators, escape) \o escape
                    ELSE check.prefix \o field
               ELSE IF needs_quoting THEN encode_string_quoted(field, separators, escape)
               ELSE field
    IN encode_rows(rows, separators[1], line_separator, write_field)

encode_string_encoding(rows, separators, escape, line_separator, target, avx2) ==
    LET sep_encoded == encode_utf8_extend(separators[1], target)
        ls_encoded == encode_utf8_extend(line_separator, target)
        write_field(field) ==
            encode_utf8_extend(
                IF encode_string_needs_quoting(field, separators, escape, avx2)
                THEN encode_string_quoted(field, separators, escape)
                ELSE field, target)
    IN encode_rows(rows, sep_encoded, ls_encoded, write_field)

encode_string_full(rows, separators, escape, line_separator, formula, target, avx2) ==
    LET sep_encoded == encode_utf8_extend(separators[1], target)
        ls_encoded == encode_utf8_extend(line_separator, target)
        write_field(field) ==
            LET needs_quoting == encode_string_needs_quoting(field, separators, escape, avx2)
                check == FormulaConfig_check(formula, field)
            IN IF check.some
               THEN IF needs_quoting
                    THEN encode_utf8_extend(escape, target) \o check.prefix
                         \o encode_utf8_extend(
                                encode_string_quoted_inner(field, separators, escape), target)
                         \o encode_utf8_extend(escape, target)
                    ELSE check.prefix \o encode_utf8_extend(field, target)
               ELSE encode_utf8_extend(
                        IF needs_quoting THEN encode_string_quoted(field, separators, escape)
                        ELSE field, target)
    IN encode_rows(rows, sep_encoded, ls_encoded, write_field)

(* PostProcess::from and the match of encode_string on it. *)
encode_string(rows, separators, escape, line_separator, formula, target, avx2) ==
    CASE formula = <<>> /\ target = "Utf8" ->
             encode_string_none(rows, separators, escape, line_separator, avx2)
      [] formula # <<>> /\ target = "Utf8" ->
             encode_string_formula(rows, separators, escape, line_separator, formula, avx2)
      [] formula = <<>> /\ target # "Utf8" ->
             encode_string_encoding(rows, separators, escape, line_separator, target, avx2)
      [] formula # <<>> /\ target # "Utf8" ->
             encode_string_full(rows, separators, escape, line_separator, formula, target, avx2)

(* The closure of encode_string_parallel on one chunk of rows. *)
encode_string_parallel_chunk(chunk_rows, dump_sep, esc, line_separator, formula, target, avx2) ==
    LET has_formula == formula # <<>>
        needs_encoding == target # "Utf8"
        sep_bytes_encoded == IF needs_encoding THEN encode_utf8_to_target(<<dump_sep>>, target)
                             ELSE <<dump_sep>>
        ls_encoded == IF needs_encoding THEN encode_utf8_to_target(line_separator, target)
                      ELSE line_separator
        write_field(field) ==
            LET formula_prefix == IF has_formula /\ field # <<>>
                                  THEN FormulaConfig_check(formula, field)
                                  ELSE [some |-> FALSE, prefix |-> <<>>]
                needs_quoting == field_needs_quoting_simd(field, dump_sep, esc, avx2)
            IN IF formula_prefix.some
               THEN IF needs_quoting
                    THEN IF needs_encoding
                         THEN encode_utf8_to_target(<<esc>>, target) \o formula_prefix.prefix
                              \o encode_utf8_to_target(write_quoted_field_inner(field, esc), target)
                              \o encode_utf8_to_target(<<esc>>, target)
                         ELSE <<esc>> \o formula_prefix.prefix
                              \o write_quoted_field_inner(field, esc) \o <<esc>>
                    ELSE IF needs_encoding
                    THEN formula_prefix.prefix \o encode_utf8_to_target(field, target)
                    ELSE formula_prefix.prefix \o field
               ELSE IF needs_quoting
               THEN IF needs_encoding
                    THEN encode_utf8_to_target(write_quoted_field(field, esc), target)
                    ELSE write_quoted_field(field, esc)
               ELSE IF needs_encoding THEN encode_utf8_to_target(field, target)
               ELSE field
    IN encode_rows(chunk_rows, sep_bytes_encoded, ls_encoded, write_field)

(* all_rows.par_chunks(chunk_size): consecutive chunks of chunk_size rows, *)
(* the last one shorter.                                                   *)
par_chunks(all_rows, chunk_size) ==
    [k \in 1..((Len(all_rows) + chunk_size - 1) \div chunk_size) |->
        Slice(all_rows, (k - 1) * chunk_size, Min(k * chunk_size, Len(all_rows)))]

(***************************************************************************)
(* The NIFs called on a row vector.                                        *)
(*   parser     the arguments but the rows; for the parallel NIF also the  *)
(*              chunks of rows and the buffers of the chunks encoded       *)
(*   fed        the rows                                                   *)
(*   result     "ok" before the call; "encoding" while the pool works;     *)
(*              then the NIF that returned, or "badarg"                    *)
(*   delivered  the iodata returned, flattened                             *)
(***************************************************************************)
MaxTokens == 2

(* '=' with the replacement "'" and '@' with a tab and "'". *)
FormulaRules == <<<<61, <<39>>>>, <<64, <<9, 39>>>>>>

EncodingTargets == {"Utf8", "Latin1", "Utf16Le", "Utf16Be", "Utf32Le", "Utf32Be"}

(* Fields of up to MaxTokens tokens: the triggers, the separators, the     *)
(* escape, a line feed, a plain byte, U+00E9, U+0100, U+1F600 in UTF-8 and *)
(* a byte that is no UTF-8.                                                *)
NifTokens(config) ==
    {<<61>>, <<64>>, config.escape, <<LF>>, <<FILL>>, <<195, 169>>, <<196, 128>>,
     <<240, 159, 152, 128>>, <<255>>}
    \cup {config.separators[k] : k \in 1..Len(config.separators)}

NifFields(config, n) ==
    {ConcatAll(tokens) : tokens \in UNION {[1..k -> NifTokens(config)] : k \in 0..n}}

(* One row of one field; tables of one-token fields; a vector long enough  *)
(* for two chunks.                                                         *)
NifRows(config) ==
    LET short == NifFields(config, 1)
        key == {<<>>, <<61>>, <<FILL>>, config.escape, config.separators[Len(config.separators)]}
    IN {<<<<f>>>> : f \in NifFields(config, MaxTokens)}
       \cup {<<<<f, g>>>> : f \in short, g \in key}
       \cup {<<<<f>>, <<g>>>> : f \in key, g \in key}
       \cup {<<>>}
       \cup {[r \in 1..257 |-> IF r \in {1, 256, 257} THEN <<f>> ELSE <<<<>>>>] : f \in key}

InitNif ==
    /\ parser \in {[kind |-> "Nif", separators |-> c[1], escape |-> c[2],
                    line_separator |-> <<LF>>, formula |-> formula, target |-> target,
                    chunks |-> <<>>, out |-> <<>>] :
                      c \in {<<<<<<COMMA>>>>, <<QUOTE>>>>,
                             <<<<<<COMMA>>, <<SEMICOLON>>>>, <<QUOTE>>>>,
                             <<<<<<COMMA>>>>, <<DOLLAR, DOLLAR>>>>,
                             <<<<<<SEMICOLON, SEMICOLON>>, <<COMMA>>>>, <<QUOTE>>>>},
                      formula \in {<<>>, FormulaRules},
                      target \in EncodingTargets}
    /\ fed \in NifRows(parser)
    /\ result = "ok"
    /\ delivered = <<>>
    /\ poisoned = FALSE /\ finalised = FALSE /\ lateFeed = FALSE /\ resumed = FALSE

EncodeString ==
    /\ result = "ok"
    /\ \E avx2 \in BOOLEAN :
          delivered' = encode_string(fed, parser.separators, parser.escape, parser.line_separator,
                                     parser.formula, parser.target, avx2)
    /\ result' = "encode_string"
    /\ UNCHANGED <<parser, fed, poisoned, finalised, lateFeed, resumed>>

(* encode_string_parallel up to the pool: BadArg unless all patterns are   *)
(* single bytes, an empty list for no rows, else the rows in chunks of     *)
(* (all_rows.len() / recommended_threads()).max(256), where                *)
(* recommended_threads() is between 1 and 8.                               *)
EncodeStringParallel ==
    /\ result = "ok"
    /\ IF ~is_all_single_byte(parser.separators, parser.escape)
       THEN result' = "badarg" /\ UNCHANGED <<parser, delivered>>
       ELSE IF fed = <<>>
       THEN result' = "encode_string_parallel" /\ delivered' = <<>> /\ UNCHANGED parser
       ELSE \E threads \in 1..8 :
               LET quotient == Len(fed) \div threads
                   chunk_size == IF quotient > 256 THEN quotient ELSE 256
               IN /\ parser' = [parser EXCEPT !.chunks = par_chunks(fed, chunk_size)]
                  /\ result' = "encoding"
                  /\ UNCHANGED delivered
    /\ UNCHANGED <<fed, poisoned, finalised, lateFeed, resumed>>

(* A worker of the pool encodes a chunk not yet done. *)
EncodeStringParallelWorker ==
    /\ result = "encoding"
    /\ \E k \in (1..Len(parser.chunks)) \ DOMAIN parser.out : \E avx2 \in BOOLEAN :
          parser' = [parser EXCEPT !.out = @ @@ (k :>
                        encode_string_parallel_chunk(parser.chunks[k],
                            single_byte_seps(parser.separators)[1], parser.escape[1],
                            parser.line_separator, parser.formula, parser.target, avx2))]
    /\ UNCHANGED <<result, fed, delivered, poisoned, finalised, lateFeed, resumed>>

(* collect() and phase 3: the buffers in the order of the chunks. *)
EncodeStringParallelCollect ==
    /\ result = "encoding"
    /\ DOMAIN parser.out = 1..Len(parser.chunks)
    /\ delivered' = ConcatAll([k \in 1..Len(parser.chunks) |-> parser.out[k]])
    /\ result' = "encode_string_parallel"
    /\ UNCHANGED <<parser, fed, poisoned, finalised, lateFeed, resumed>>

NextNif ==
    \/ EncodeString
    \/ EncodeStringParallel
    \/ EncodeStringParallelWorker
    \/ EncodeStringParallelCollect

SpecNif == InitNif /\ [][NextNif]_vars

(* A field as the encoder writes it without formula rules. *)
WrittenWithoutFormula(field, avx2) ==
    LET line == encode_string_none(<<<<field>>>>, parser.separators, parser.escape,
                                   parser.line_separator, avx2)
    IN Slice(line, 0, Len(line) - Len(parser.line_separator))

(* C27: with formula rules, a field whose first byte is a trigger is       *)
(* written with the replacement of the first rule for that byte put before *)
(* it: after the opening escape when the field is written quoted, before   *)
(* the bare field otherwise.  An empty field and a field whose first byte  *)
(* is no trigger are written as they are without formula rules.            *)
C27_FormulaPrefix ==
    (result = "encode_string" /\ parser.formula # <<>> /\ parser.target = "Utf8") =>
        \E avx2 \in BOOLEAN :
            LET rules == parser.formula
                triggered(field) == field # <<>> /\ \E k \in 1..Len(rules) : rules[k][1] = field[1]
                replacement(field) ==
                    rules[CHOOSE k \in 1..Len(rules) :
                              /\ rules[k][1] = field[1]
                              /\ \A j \in 1..(k - 1) : rules[j][1] # field[1]][2]
                expected(field) ==
                    LET plain == WrittenWithoutFormula(field, avx2) IN
                    IF ~triggered(field) THEN plain
                    ELSE IF plain = field THEN replacement(field) \o field
                    ELSE parser.escape \o replacement(field)
                         \o Slice(plain, Len(parser.escape), Len(plain))
            IN delivered = encode_rows(fed, parser.separators[1], parser.line_separator, expected)

C27_Witness ==
    /\ result = "encode_string"
    /\ parser.formula # <<>> /\ parser.target = "Utf8"
    /\ parser.separators = <<<<COMMA>>>> /\ parser.escape = <<QUOTE>>
    /\ fed = <<<<<<64, QUOTE>>>>>>
    /\ delivered = <<QUOTE, 9, 39, 64, QUOTE, QUOTE, QUOTE, LF>>

(* C28: with formula rules and a target other than UTF-8 the output is the *)
(* transcoding to the target of the bytes that formula-only encoding       *)
(* writes for the same rows, replacements included, for every output of   *)
(* at most MaxParsed bytes.                                                *)
C28_FullIsTranscodedFormula ==
    (result = "encode_string" /\ parser.formula # <<>> /\ parser.target # "Utf8"
        /\ Len(delivered) <= MaxParsed) =>
        \E avx2 \in BOOLEAN :
            delivered = encode_utf8_to_target(
                            encode_string_formula(fed, parser.separators, parser.escape,
                                                  parser.line_separator, parser.formula, avx2),
                            parser.target)

(* C29: what the parallel encoder returns, its chunk buffers put together  *)
(* in order, is what the sequential encoder returns for the same           *)
(* arguments, whatever the chunk size and the order in which the workers   *)
(* finish.                                                                 *)
C29_ParallelEqualsSequential ==
    result = "encode_string_parallel" =>
        \E avx2 \in BOOLEAN :
            delivered = encode_string(fed, parser.separators, parser.escape,
                                      parser.line_separator, parser.formula, parser.target, avx2)

(* C30: in every state that feed, take_rows, finalize and                  *)
(* set_max_buffer_size can reach on any of the three streaming parsers the *)
(* start of the row in progress is at or before the scan cursor and the    *)
(* scan cursor is within the buffer, so that compaction never subtracts    *)
(* past zero and no call panics.                                           *)
C30_RowStartCursorBufferOrdered ==
    /\ ~usize_lt(parser.scan_pos, parser.partial_row_start)
    /\ ~usize_lt(Len(parser.buffer), parser.scan_pos)
    /\ ~poisoned

(* The position in a row's bytes of the escape that opens the quoted       *)
(* region still open at the end of the bytes, or -1 when no region is      *)
(* open: an escape opens a region, the next escape that is not doubled     *)
(* closes it.                                                              *)
RECURSIVE UnterminatedOpening(_, _, _, _)
UnterminatedOpening(line, escape, pos, open) ==
    IF pos >= Len(line) THEN open
    ELSE IF open >= 0
    THEN IF line[pos + 1] = escape
         THEN IF pos + 1 < Len(line) /\ line[pos + 2] = escape
              THEN UnterminatedOpening(line, escape, pos + 2, open)
              ELSE UnterminatedOpening(line, escape, pos + 1, -1)
         ELSE UnterminatedOpening(line, escape, pos + 1, open)
    ELSE UnterminatedOpening(line, escape, pos + 1, IF line[pos + 1] = escape THEN pos ELSE -1)

IsSuffix(s, t) == Len(s) <= Len(t) /\ Slice(t, Len(t) - Len(s), Len(t)) = s

(* C31: when the first finalize finds the quote carry set, the last field  *)
(* of the last row it returns ends with the bytes from the unterminated    *)
(* opening escape to the end of the buffer, taken verbatim: no separator   *)
(* splits them and no escape is stripped or collapsed.                     *)
C31_UnterminatedFieldVerbatim ==
    [][(/\ ~finalised /\ finalised' /\ ~poisoned
        /\ parser.in_quotes
        /\ parser.partial_row_start < Len(parser.buffer))
       => LET line == Slice(parser.buffer, parser.partial_row_start, Len(parser.buffer))
              open == UnterminatedOpening(line, parser.escape, 0, -1)
          IN open >= 0 =>
               /\ delivered' # <<>>
               /\ IsSuffix(Slice(line, open, Len(line)),
                           delivered'[Len(delivered')][Len(delivered'[Len(delivered')])])]_vars

(* The rows of the lines of the input that a terminator ends, an unquoted  *)
(* LF with the CR before it when there is one, as the parser builds them   *)
(* from the line's bytes; a line of no bytes gives no row.                 *)
RECURSIVE TerminatedRows(_, _, _, _, _)
TerminatedRows(self, input, start, pos, rows) ==
    IF pos >= Len(input) THEN rows
    ELSE IF pos \in UnquotedLFs(input, self.escape)
    THEN LET end == IF pos > start /\ input[pos] = CR THEN pos - 1 ELSE pos
             row == ParseRowOwned([self EXCEPT !.buffer = input], start, end)
         IN TerminatedRows(self, input, pos + 1, pos + 1,
                           IF row # <<>> THEN Append(rows, row) ELSE rows)
    ELSE TerminatedRows(self, input, start, pos + 1, rows)

(* C32: before finalize, the rows taken so far followed by the rows that   *)
(* take_rows can still return are the rows of every line whose LF or CRLF  *)
(* has been fed, and the scan has examined every byte of the buffer but,   *)
(* at most, one unquoted CR that is its last byte.                         *)
C32_TerminatedRowsAvailable ==
    (~finalised /\ ~poisoned) =>
        /\ delivered \o parser.complete_rows = TerminatedRows(parser, fed, 0, 0, <<>>)
        /\ \/ parser.scan_pos = Len(parser.buffer)
           \/ /\ parser.scan_pos = Len(parser.buffer) - 1
              /\ parser.buffer[Len(parser.buffer)] = CR
              /\ ~parser.in_quotes

(* A CRLF that two chunks brought has ended a row, and the CR fed last is  *)
(* waiting for the next chunk.                                             *)
C32_Witness ==
    /\ ~finalised /\ ~poisoned
    /\ resumed
    /\ fed = <<COMMA, CR, LF, CR>>
    /\ delivered \o parser.complete_rows = <<<<<<>>, <<>>>>>>
    /\ parser.scan_pos = Len(parser.buffer) - 1

(***************************************************************************)
(* strategy/streaming.rs: the compaction policy.  The default parser takes *)
(* chunks long enough for a row to end in the first half of the buffer.    *)
(***************************************************************************)
MaxPolicyChunk == 4
MaxPolicyInput == 5

PolicyChunks == BytesUpTo({COMMA, LF, CR}, MaxPolicyChunk)

(* streaming_feed, as Feed, with the chunks and the input length of this   *)
(* specification.                                                          *)
FeedPolicy(chunk) ==
    /\ Len(fed) + Len(chunk) <= MaxPolicyInput
    /\ \/ LockFailed
       \/ /\ ~poisoned
          /\ LET checked == StreamingParserEnum_feed(parser, chunk, TRUE) IN
             \E r \in IF checked.panic
                      THEN {checked, StreamingParserEnum_feed(parser, chunk, FALSE)}
                      ELSE {checked} :
                /\ parser' = r.self
                /\ poisoned' = r.panic
                /\ result' = IF r.overflow THEN "buffer_overflow"
                             ELSE IF r.panic THEN "panic" ELSE "ok"
                /\ fed' = IF r.overflow THEN fed ELSE fed \o chunk
                /\ lateFeed' = (lateFeed \/ (finalised /\ ~r.overflow))
                /\ resumed' = IF r.overflow THEN resumed
                              ELSE usize_lt(parser.scan_pos, Len(parser.buffer))
          /\ UNCHANGED <<delivered, finalised>>

NextPolicy ==
    \/ \E chunk \in PolicyChunks : FeedPolicy(chunk)
    \/ \E max \in 0..MaxTake : NextRows(max)
    \/ Finalize

SpecPolicy == Init /\ [][NextPolicy]_vars

(* C33: the bytes before the start of the row in progress occupy at most   *)
(* half of the buffer.  take_rows(0) returns in the state it was called    *)
(* in, so every state of a parser that can still be called is the state    *)
(* after a take_rows.                                                      *)
C33_DrainedPrefixAtMostHalf ==
    ~poisoned => 2 * parser.partial_row_start <= Len(parser.buffer)

(* C33, before finalize: after every feed and every take_rows the start of *)
(* the row in progress is 0 or the bytes before it are fewer than half of  *)
(* the buffer, and a feed leaves the start above 0 only when the buffer    *)
(* the scan left was longer than twice the start.                          *)
C33_DrainedPrefixBelowHalfBeforeFinalize ==
    (~poisoned /\ ~finalised) =>
        \/ parser.partial_row_start = 0
        \/ 2 * parser.partial_row_start < Len(parser.buffer)

(* A row has ended in the first half of the buffer and the buffer was left *)
(* as it is; rows ended later in other feeds and the buffer was compacted. *)
C33_Witness ==
    /\ ~poisoned /\ ~finalised
    /\ parser.partial_row_start > 0
    /\ Len(parser.buffer) < Len(fed)

(***************************************************************************)
(* core/simd_scanner.rs: the incremental scanner, called on a prefix of    *)
(* the input and then on the whole input from where the prefix ends.       *)
(***************************************************************************)
MaxWindow == 3

IncrementalInputs ==
    {Pad(p) \o w \o Pad(q) : p \in {0, CHUNK - 2, CHUNK - 1},
                             w \in BytesUpTo({COMMA, QUOTE, LF, CR}, MaxWindow),
                             q \in SuffixPads}

InitIncremental ==
    /\ parser = [kind |-> "Incremental", separators |-> <<COMMA>>, escape |-> QUOTE,
                 index |-> EmptyIndex, in_quotes |-> FALSE]
    /\ fed \in IncrementalInputs
    /\ result = "ok"
    /\ delivered = <<>>
    /\ poisoned = FALSE /\ finalised = FALSE /\ lateFeed = FALSE /\ resumed = FALSE

(* scan_structural_incremental(&input[..k], 0, separators, escape, false,  *)
(* &mut field_seps, &mut row_ends) on empty vectors                        *)
ScanPrefix(k) ==
    /\ result = "ok"
    /\ LET t == scan_structural_incremental(Slice(fed, 0, k), 0, parser.separators, parser.escape,
                                            FALSE, [field_seps |-> <<>>, row_ends |-> <<>>])
       IN parser' = [parser EXCEPT !.index = [field_seps |-> t.field_seps, row_ends |-> t.row_ends,
                                              input_len |-> k],
                                   !.in_quotes = t.in_quotes]
    /\ result' = "prefix"
    /\ UNCHANGED <<fed, delivered, poisoned, finalised, lateFeed, resumed>>

(* scan_structural_incremental(input, k, separators, escape, carry, ...)   *)
(* on the vectors and with the carry the scan of the prefix left           *)
ScanIncremental ==
    /\ result = "prefix"
    /\ LET t == scan_structural_incremental(fed, parser.index.input_len, parser.separators,
                                            parser.escape, parser.in_quotes,
                                            [field_seps |-> parser.index.field_seps,
                                             row_ends |-> parser.index.row_ends])
       IN parser' = [parser EXCEPT !.index = [field_seps |-> t.field_seps, row_ends |-> t.row_ends,
                                              input_len |-> Len(fed)],
                                   !.in_quotes = t.in_quotes]
    /\ result' = "incremental"
    /\ delivered' = <<parser.index.input_len>>
    /\ UNCHANGED <<fed, poisoned, finalised, lateFeed, resumed>>

NextIncremental ==
    \/ \E k \in 0..Len(fed) : ScanPrefix(k)
    \/ ScanIncremental

SpecIncremental == InitIncremental /\ [][NextIncremental]_vars

(* C34: for every split position, the scan of the prefix followed by the   *)
(* incremental scan of the whole input from the split with the carry of    *)
(* the first leaves the separator positions and row ends of one scan of    *)
(* the whole input, in both builds, and returns the parity of the escapes  *)
(* of the input.                                                           *)
C34_IncrementalEqualsWhole ==
    result = "incremental" =>
        /\ \A avx2 \in BOOLEAN :
              LET whole == scan_structural(fed, parser.separators, parser.escape, avx2)
              IN /\ parser.index.field_seps = whole.field_seps
                 /\ parser.index.row_ends = whole.row_ends
        /\ parser.in_quotes =
              (Cardinality({i \in 1..Len(fed) : fed[i] = parser.escape}) % 2 = 1)

(* The split fell between the two escapes of a doubled escape inside a     *)
(* quoted field, past the first chunk, and the incremental scan ran its    *)
(* vector loop.                                                            *)
C34_Witness ==
    /\ result = "incremental"
    /\ fed = Pad(CHUNK - 1) \o <<QUOTE, QUOTE, QUOTE>> \o Pad(CHUNK)
    /\ delivered = <<CHUNK + 1>>
    /\ parser.in_quotes

(* C35: every LF outside quotes that follows a CR has exactly one row-end  *)
(* record, at the CR and of length 2, wherever the two bytes lie in the    *)
(* chunks and the tail; and the row ends of the scan are those that the    *)
(* scalar tail alone writes for the whole input.                           *)
C35_CrLfIsOneRowEnd ==
    result = "scanned" =>
        /\ \A p \in UnquotedLFs(fed, parser.escape) :
              (p > 0 /\ fed[p] = CR) =>
                 /\ Cardinality({k \in 1..Len(parser.index.row_ends) :
                                    parser.index.row_ends[k].pos \in {p - 1, p}}) = 1
                 /\ [pos |-> p - 1, len |-> 2] \in Range(parser.index.row_ends)
        /\ parser.index.row_ends =
              scan_scalar_tail(fed, 0, parser.separators, parser.escape, FALSE,
                               [field_seps |-> <<>>, row_ends |-> <<>>]).row_ends

(* The CR is the last byte of the 16-byte chunk and the LF the first byte  *)
(* of the scalar tail.                                                     *)
C35_Witness ==
    /\ result = "scanned"
    /\ fed = Pad(CHUNK - 2) \o <<COMMA, CR, LF>>
    /\ parser.index.row_ends = <<[pos |-> CHUNK - 1, len |-> 2]>>

(* C36: for the index of every scanned input, rows_with_fields() yields    *)
(* the rows that rows() yields, each with the start, the content end and   *)
(* the field bounds that fields_in_row() finds for it by binary search.    *)
C36_CursorEqualsBinarySearch ==
    result = "rows_with_fields" => delivered = rows_then_fields_in_row(parser.index)

(* The second row's separators begin past the first row's in field_seps.   *)
C36_Witness ==
    /\ result = "rows_with_fields"
    /\ fed = <<COMMA, LF, COMMA>>
    /\ Len(delivered) = 2
    /\ delivered[2] = [start |-> 2, content_end |-> 3, fields |-> <<<<2, 2>>, <<3, 3>>>>]

(***************************************************************************)
(* lib.rs, resource.rs: the streaming NIFs called from two threads on one  *)
(* StreamingParserResource.  The resource is                               *)
(*   inner     the StreamingParserEnum behind the Mutex                    *)
(*   holders   the threads that hold a MutexGuard                          *)
(*   threads   for each thread where it is in its call (pc), the call, the *)
(*             rows or error its body produced and what it returned        *)
(*   calls     the calls started so far                                    *)
(*   overflow_checks  whether the build checks arithmetic overflow         *)
(*   seq, seq_poisoned, and expected in each thread: the parser, the       *)
(*             poison flag and the return values of the same calls made    *)
(*             one after the other in the order their locks were taken     *)
(***************************************************************************)
MaxCalls == 4

THREADS == {1, 2}

ConcurrentChunks == {<<>>, <<CR>>, <<COMMA, LF>>}

ConcurrentCalls ==
    {[name |-> "feed", arg |-> chunk] : chunk \in ConcurrentChunks}
    \cup {[name |-> "next_rows", arg |-> 1], [name |-> "finalize", arg |-> 0],
          [name |-> "status", arg |-> 0], [name |-> "set_max_buffer", arg |-> LowLimit]}

(* "(inner.available_rows(), inner.buffer_size())" *)
streaming_feed_status(inner) ==
    <<"ok", StreamingParserEnum_available_rows(inner), StreamingParserEnum_buffer_size(inner)>>

(* The body of a NIF between lock_parser and its return expression: the    *)
(* parser it leaves, the rows it took or the error it raises ("" when it   *)
(* goes on to its return expression) and whether it panicked.              *)
streaming_feed_body(r) ==
    [inner |-> r.self, rows |-> <<>>, panic |-> r.panic,
     error |-> IF r.panic THEN "panic" ELSE IF r.overflow THEN "buffer_overflow" ELSE ""]

streaming_rows_body(r) == [inner |-> r.self, rows |-> r.rows, panic |-> FALSE, error |-> ""]

streaming_body(inner, call, overflow_checks) ==
    CASE call.name = "feed" ->
           streaming_feed_body(StreamingParserEnum_feed(inner, call.arg, overflow_checks))
      [] call.name = "next_rows" ->
           streaming_rows_body(StreamingParserEnum_take_rows(inner, call.arg))
      [] call.name = "finalize" ->
           streaming_rows_body(StreamingParserEnum_finalize(inner))
      [] call.name = "status" ->
           [inner |-> inner, rows |-> <<>>, panic |-> FALSE, error |-> ""]
      [] call.name = "set_max_buffer" ->
           [inner |-> StreamingParserEnum_set_max_buffer_size(inner, call.arg),
            rows |-> <<>>, panic |-> FALSE, error |-> ""]

(* The return expression of a NIF, evaluated on the parser as it is then. *)
streaming_return(inner, call, rows) ==
    CASE call.name = "feed" -> streaming_feed_status(inner)
      [] call.name = "next_rows" -> <<"ok", rows>>
      [] call.name = "finalize" -> <<"ok", rows>>
      [] call.name = "status" ->
           <<"ok", StreamingParserEnum_available_rows(inner),
             StreamingParserEnum_buffer_size(inner), StreamingParserEnum_has_partial(inner)>>
      [] call.name = "set_max_buffer" -> <<"ok">>

(* A whole call made alone: the parser and poison flag it leaves and what  *)
(* it returns.                                                             *)
streaming_call_outcome(b, call) ==
    IF b.error # ""
    THEN [inner |-> b.inner, poisoned |-> b.panic, ret |-> <<b.error>>]
    ELSE [inner |-> b.inner, poisoned |-> FALSE, ret |-> streaming_return(b.inner, call, b.rows)]

streaming_call_alone(inner, is_poisoned, call, overflow_checks) ==
    IF is_poisoned
    THEN [inner |-> inner, poisoned |-> TRUE, ret |-> <<"mutex_poisoned">>]
    ELSE streaming_call_outcome(streaming_body(inner, call, overflow_checks), call)

IdleThread == [pc |-> "idle", call |-> [name |-> "none", arg |-> 0], rows |-> <<>>,
               ret |-> <<>>, expected |-> <<>>]

InitConcurrent ==
    /\ \E overflow_checks \in BOOLEAN :
          parser = [kind |-> "Shared", inner |-> StreamingParser_new, holders |-> {},
                    threads |-> [t \in THREADS |-> IdleThread], calls |-> 0,
                    overflow_checks |-> overflow_checks,
                    seq |-> StreamingParser_new, seq_poisoned |-> FALSE]
    /\ InitResource

(* A thread enters a NIF. *)
StreamingCall(t, call) ==
    /\ parser.threads[t].pc = "idle"
    /\ parser.calls < MaxCalls
    /\ parser' = [parser EXCEPT !.threads[t] = [IdleThread EXCEPT !.pc = "lock", !.call = call],
                                !.calls = @ + 1]
    /\ result' = "called"
    /\ UNCHANGED <<poisoned, fed, delivered, finalised, lateFeed, resumed>>

(* What lock_parser leaves: the guard, or the error of a poisoned mutex.   *)
(* alone is what the call does when made alone at this point after the     *)
(* calls that took the lock before it.                                     *)
LockTaken(t, alone) ==
    /\ IF poisoned
       THEN /\ parser' = [parser EXCEPT !.threads[t].pc = "idle",
                                        !.threads[t].ret = <<"mutex_poisoned">>,
                                        !.threads[t].expected = alone.ret,
                                        !.seq = alone.inner, !.seq_poisoned = alone.poisoned]
            /\ result' = "mutex_poisoned"
       ELSE /\ parser' = [parser EXCEPT !.threads[t].pc = "body",
                                        !.threads[t].expected = alone.ret,
                                        !.holders = @ \cup {t},
                                        !.seq = alone.inner, !.seq_poisoned = alone.poisoned]
            /\ result' = "locked"
    /\ UNCHANGED <<poisoned, fed, delivered, finalised, lateFeed, resumed>>

(* lock_parser as it would be if lock() did not wait for the guard of the  *)
(* other thread to be dropped.                                             *)
StreamingLock_does_not_wait(t) ==
    /\ parser.threads[t].pc = "lock"
    /\ LockTaken(t, streaming_call_alone(parser.seq, parser.seq_poisoned,
                                         parser.threads[t].call, parser.overflow_checks))

(* lock_parser: lock() returns the guard once no other thread holds one,   *)
(* or an error when the mutex is poisoned.  The calls made one after the   *)
(* other take the same call at this point.                                 *)
StreamingLock(t) ==
    /\ parser.threads[t].pc = "lock"
    /\ parser.holders = {}
    /\ LockTaken(t, streaming_call_alone(parser.seq, parser.seq_poisoned,
                                         parser.threads[t].call, parser.overflow_checks))

(* What the body b of thread t's call leaves. *)
BodyDone(t, call, b) ==
    /\ IF b.error # ""
       THEN /\ parser' = [parser EXCEPT !.inner = b.inner,
                                        !.holders = @ \ {t},
                                        !.threads[t].pc = "idle",
                                        !.threads[t].ret = <<b.error>>]
            /\ result' = b.error
       ELSE /\ parser' = [parser EXCEPT !.inner = b.inner,
                                        !.threads[t].pc = "return",
                                        !.threads[t].rows = b.rows]
            /\ result' = "body"
    /\ poisoned' = (poisoned \/ b.panic)
    /\ fed' = IF call.name = "feed" /\ b.error = "" THEN fed \o call.arg ELSE fed
    /\ finalised' = (finalised \/ call.name = "finalize")
    /\ UNCHANGED <<delivered, lateFeed, resumed>>

(* The body of the NIF, with the guard held.  An error return and a panic  *)
(* drop the guard; a panic poisons the mutex.                              *)
StreamingBody(t) ==
    /\ parser.threads[t].pc = "body"
    /\ t \in parser.holders
    /\ BodyDone(t, parser.threads[t].call,
                streaming_body(parser.inner, parser.threads[t].call, parser.overflow_checks))

(* The return expression of the NIF; the guard is dropped after it. *)
StreamingReturn(t) ==
    /\ parser.threads[t].pc = "return"
    /\ t \in parser.holders
    /\ parser' = [parser EXCEPT !.holders = @ \ {t},
                                !.threads[t].pc = "idle",
                                !.threads[t].ret = streaming_return(parser.inner, parser.threads[t].call,
                                                                    parser.threads[t].rows)]
    /\ delivered' = delivered \o parser.threads[t].rows
    /\ result' = "ok"
    /\ UNCHANGED <<poisoned, fed, finalised, lateFeed, resumed>>

NextConcurrent ==
    \E t \in THREADS :
        \/ \E call \in ConcurrentCalls : StreamingCall(t, call)
        \/ StreamingLock(t)
        \/ StreamingBody(t)
        \/ StreamingReturn(t)

SpecConcurrent == InitConcurrent /\ [][NextConcurrent]_vars

(* C37: at most one thread is between lock_parser and the end of its call; *)
(* every call that has returned returned what the same calls return when   *)
(* made one after the other in the order their locks were taken; and when  *)
(* no call holds the guard the parser and the poison flag are those the    *)
(* calls made one after the other leave.                                   *)
C37_CallsAreSerialised ==
    /\ Cardinality(parser.holders) <= 1
    /\ \A t \in THREADS :
          (parser.threads[t].pc = "idle" /\ parser.threads[t].call.name # "none")
              => parser.threads[t].ret = parser.threads[t].expected
    /\ parser.holders = {} =>
          /\ parser.inner = parser.seq
          /\ poisoned = parser.seq_poisoned

(* A feed has returned its status while the other thread, which entered    *)
(* its call before the feed returned, waited for the guard and then took   *)
(* the row the feed had queued.                                            *)
C37_Witness ==
    /\ parser.threads[1].pc = "idle"
    /\ parser.threads[1].call = [name |-> "feed", arg |-> <<COMMA, LF>>]
    /\ parser.threads[1].ret = <<"ok", 1, 0>>
    /\ parser.threads[2].pc = "idle"
    /\ parser.threads[2].call.name = "next_rows"
    /\ parser.threads[2].ret = <<"ok", <<<<<<>>, <<>>>>>>>>
    /\ parser.calls = 2

(***************************************************************************)
(* strategy/parallel.rs: the worker pool of the parallel strategies.       *)
(*                                                                         *)
(* CSV_POOL is a OnceLock<Option<ThreadPool>>.  The threads of one process *)
(* enter run_parallel (parse_csv_parallel and its variants, the parallel   *)
(* encoder) at any time; get_or_init runs the building closure in one of   *)
(* them while the others that arrive meanwhile wait for its value.         *)
(* available is what std::thread::available_parallelism() returns, 0 for   *)
(* its error.  A pool is written as its number of threads, 0 for None (the *)
(* build failed); the global pool of rayon, 0 until it is first used, has  *)
(* the size its environment configures.                                    *)
(***************************************************************************)
MaxCpus == 9

MaxPoolCalls == 3

(* recommended_threads as it would be without the cap. *)
recommended_threads_uncapped(available) ==
    IF available = 0 THEN 4 ELSE available

(* recommended_threads *)
recommended_threads(available) ==
    IF available = 0 THEN 4 ELSE Min(available, 8)

IdleCaller == [pc |-> "idle", waited |-> FALSE, workers |-> 0, pool |-> "none"]

InitPool ==
    /\ \E available \in 0..MaxCpus :
          parser = [kind |-> "Pool", available |-> available, once |-> "uninit",
                    CSV_POOL |-> 0, builds |-> 0, global |-> 0,
                    threads |-> [t \in THREADS |-> IdleCaller], calls |-> 0]
    /\ InitResource

(* A thread enters run_parallel. *)
ParallelCall(t) ==
    /\ parser.threads[t].pc = "idle"
    /\ parser.calls < MaxPoolCalls
    /\ parser' = [parser EXCEPT !.threads[t] = [IdleCaller EXCEPT !.pc = "get_pool"],
                                !.calls = @ + 1]
    /\ result' = "called"
    /\ UNCHANGED <<poisoned, fed, delivered, finalised, lateFeed, resumed>>

(* get_pool: CSV_POOL.get_or_init.  The first thread runs the closure, a   *)
(* thread that arrives while it runs waits, and a thread that finds the    *)
(* cell set takes its value.                                               *)
get_pool(t) ==
    /\ parser.threads[t].pc \in {"get_pool", "wait"}
    /\ IF parser.once = "done"
       THEN parser' = [parser EXCEPT !.threads[t].pc = "run"]
       ELSE IF parser.once = "uninit"
       THEN parser' = [parser EXCEPT !.threads[t].pc = "build", !.once = "running"]
       ELSE /\ parser.threads[t].pc = "get_pool"
            /\ parser' = [parser EXCEPT !.threads[t].pc = "wait", !.threads[t].waited = TRUE]
    /\ result' = "get_pool"
    /\ UNCHANGED <<poisoned, fed, delivered, finalised, lateFeed, resumed>>

(* The closure of get_or_init: ThreadPoolBuilder .. build().ok(), a pool   *)
(* of recommended_threads() threads or None when the build fails.          *)
PoolBuild(t) ==
    /\ parser.threads[t].pc = "build"
    /\ \E built \in BOOLEAN :
          parser' = [parser EXCEPT !.CSV_POOL = IF built THEN recommended_threads(parser.available)
                                                ELSE 0,
                                   !.builds = @ + 1,
                                   !.once = "done",
                                   !.threads[t].pc = "run"]
    /\ result' = "built"
    /\ UNCHANGED <<poisoned, fed, delivered, finalised, lateFeed, resumed>>

(* run_parallel: pool.install(f) on the pool, or f() on the global pool of *)
(* rayon, which is started with the size of its environment when it is     *)
(* first used.                                                             *)
run_parallel(t) ==
    /\ parser.threads[t].pc = "run"
    /\ IF parser.CSV_POOL > 0
       THEN parser' = [parser EXCEPT !.threads[t].pc = "idle",
                                     !.threads[t].workers = parser.CSV_POOL,
                                     !.threads[t].pool = "csv"]
       ELSE \E size \in 1..MaxCpus :
               /\ parser.global \in {0, size}
               /\ parser' = [parser EXCEPT !.threads[t].pc = "idle",
                                           !.threads[t].workers = size,
                                           !.threads[t].pool = "global",
                                           !.global = size]
    /\ result' = "parallel"
    /\ UNCHANGED <<poisoned, fed, delivered, finalised, lateFeed, resumed>>

NextPool ==
    \E t \in THREADS :
        \/ ParallelCall(t)
        \/ get_pool(t)
        \/ PoolBuild(t)
        \/ run_parallel(t)

SpecPool == InitPool /\ [][NextPool]_vars

(* C38 as stated: parallel work never runs on more worker threads than the *)
(* minimum of the available parallelism and 8 (8 when the available        *)
(* parallelism is unknown), and the pool is built at most once.            *)
C38_WorkersAtMostMinAvailable8 ==
    /\ parser.builds <= 1
    /\ \A t \in THREADS :
          /\ parser.threads[t].workers <= 8
          /\ parser.available > 0 => parser.threads[t].workers <= parser.available

(* C38: the building closure of the pool runs at most once, also when the  *)
(* first calls race, and work that runs on the pool it built runs on       *)
(* min(available parallelism, 8) workers, 4 when the available parallelism *)
(* is unknown; when the build failed the work runs on the global pool.     *)
C38_PoolBuiltOnceAndCapped ==
    /\ parser.builds <= 1
    /\ \A t \in THREADS :
          /\ parser.threads[t].pool = "csv" =>
                /\ parser.threads[t].workers <= 8
                /\ parser.available > 0 => parser.threads[t].workers = Min(parser.available, 8)
                /\ parser.available = 0 => parser.threads[t].workers = 4
          /\ parser.threads[t].pool = "global" => parser.CSV_POOL = 0 /\ parser.builds = 1

C38_Witness ==
    /\ parser.available = MaxCpus
    /\ parser.builds = 1
    /\ parser.threads[1].pool = "csv" /\ parser.threads[1].workers = 8
    /\ parser.threads[2].pool = "csv" /\ parser.threads[2].workers = 8
    /\ parser.threads[2].waited

(***************************************************************************)
(* lib.rs, strategy/general.rs: the scan loops of the general parsers, one *)
(* iteration at a time.                                                    *)
(*                                                                         *)
(* A term is written [type, items]: an integer 0..255 as the one-byte      *)
(* binary it stands for, a binary as the list of itself, a list of         *)
(* binaries as its items, the atom :default with no items.                 *)
(***************************************************************************)
MaxLoopInput == 4

MaxLoopChunk == 2

Term(type, items) == [type |-> type, items |-> items]

BadArg == [ok |-> FALSE, patterns |-> <<>>]

Decoded(patterns) == [ok |-> TRUE, patterns |-> patterns]

HasEmpty(patterns) == \E i \in 1..Len(patterns) : patterns[i] = <<>>

(* decode_separators: Separators { patterns } or BadArg *)
decode_separators(term) ==
    IF term.type = "integer" THEN Decoded(<<<<term.items[1][1]>>>>)
    ELSE IF term.type = "list"
    THEN IF term.items = <<>> \/ HasEmpty(term.items) THEN BadArg ELSE Decoded(term.items)
    ELSE IF term.type = "binary"
    THEN IF term.items[1] = <<>> THEN BadArg ELSE Decoded(<<term.items[1]>>)
    ELSE BadArg

(* decode_escape: Escape { bytes }, here the one pattern, or BadArg *)
decode_escape(term) ==
    IF term.type = "integer" THEN Decoded(<<<<term.items[1][1]>>>>)
    ELSE IF term.type = "binary"
    THEN IF term.items[1] = <<>> THEN BadArg ELSE Decoded(<<term.items[1]>>)
    ELSE BadArg

(* decode_newlines: the patterns of the Newlines, is_default for :default *)
decode_newlines(term) ==
    IF term.type = "atom"
    THEN [ok |-> TRUE, patterns |-> Newlines_default_newlines.patterns, is_default |-> TRUE]
    ELSE IF term.type = "list"
    THEN IF term.items = <<>> \/ HasEmpty(term.items)
         THEN [ok |-> FALSE, patterns |-> <<>>, is_default |-> FALSE]
         ELSE [ok |-> TRUE, patterns |-> Newlines_custom(term.items).patterns,
               is_default |-> FALSE]
    ELSE [ok |-> FALSE, patterns |-> <<>>, is_default |-> FALSE]

SeparatorTerms ==
    { Term("integer", <<<<COMMA>>>>), Term("binary", <<<<COMMA, COMMA>>>>),
      Term("binary", <<<<>>>>), Term("list", <<<<COMMA>>, <<>>>>), Term("list", <<>>) }

EscapeTerms ==
    { Term("integer", <<<<QUOTE>>>>), Term("binary", <<<<QUOTE, QUOTE>>>>),
      Term("binary", <<<<>>>>), Term("list", <<<<QUOTE>>>>) }

NewlineTerms ==
    { Term("atom", <<>>), Term("list", <<<<LF>>, <<LF, LF>>>>),
      Term("list", <<<<>>>>), Term("list", <<>>), Term("binary", <<<<LF>>>>) }

(* The locals of a loop over a line or an input, and the number of         *)
(* iterations it has made.                                                 *)
LoopStart(pos) ==
    [pos |-> pos, field_start |-> pos, in_quotes |-> FALSE, fields |-> <<>>, left |-> FALSE,
     iterations |-> 0]

(* One iteration of the while loop of process_buffer of the parser with    *)
(* custom newlines, as it would be if the boundary case without a match    *)
(* went round the loop again instead of leaving it.                        *)
GeneralStreamingParserNewlines_process_buffer_iteration_retries(self, pos) ==
    LET esc_len == Len(self.escape)
        max_nl_len == max_pattern_len(self.newlines) IN
    IF ~usize_lt(pos, Len(self.buffer)) THEN [self |-> self, pos |-> pos, left |-> TRUE]
    ELSE IF self.in_quotes
         THEN IF starts_with_escape(self.buffer, pos, self.escape)
              THEN IF starts_with_escape(self.buffer, pos + esc_len, self.escape)
                   THEN [self |-> self, pos |-> pos + 2 * esc_len, left |-> FALSE]
                   ELSE [self |-> [self EXCEPT !.in_quotes = FALSE], pos |-> pos + esc_len,
                         left |-> FALSE]
              ELSE [self |-> self, pos |-> pos + 1, left |-> FALSE]
         ELSE IF starts_with_escape(self.buffer, pos, self.escape)
         THEN [self |-> [self EXCEPT !.in_quotes = TRUE], pos |-> pos + esc_len, left |-> FALSE]
         ELSE LET nl_len == match_newline(self.buffer, pos, self.newlines) IN
              IF nl_len > 0
              THEN [self |-> GeneralStreamingParserNewlines_end_row(self, pos, pos + nl_len),
                    pos |-> pos + nl_len, left |-> FALSE]
              ELSE IF pos + max_nl_len > Len(self.buffer)
              THEN [self |-> self, pos |-> pos, left |-> FALSE]
              ELSE [self |-> self, pos |-> pos + 1, left |-> FALSE]

(* One iteration of the while loop of process_buffer of the parser with    *)
(* custom newlines: the test of the loop, then its body.  left says that   *)
(* the loop was left, by its test or by break.                             *)
GeneralStreamingParserNewlines_process_buffer_iteration(self, pos) ==
    LET esc_len == Len(self.escape)
        max_nl_len == max_pattern_len(self.newlines) IN
    IF ~usize_lt(pos, Len(self.buffer)) THEN [self |-> self, pos |-> pos, left |-> TRUE]
    ELSE IF self.in_quotes
         THEN IF starts_with_escape(self.buffer, pos, self.escape)
              THEN IF starts_with_escape(self.buffer, pos + esc_len, self.escape)
                   THEN [self |-> self, pos |-> pos + 2 * esc_len, left |-> FALSE]
                   ELSE [self |-> [self EXCEPT !.in_quotes = FALSE], pos |-> pos + esc_len,
                         left |-> FALSE]
              ELSE [self |-> self, pos |-> pos + 1, left |-> FALSE]
         ELSE IF starts_with_escape(self.buffer, pos, self.escape)
         THEN [self |-> [self EXCEPT !.in_quotes = TRUE], pos |-> pos + esc_len, left |-> FALSE]
         ELSE LET nl_len == match_newline(self.buffer, pos, self.newlines) IN
              IF pos + max_nl_len > Len(self.buffer)
              THEN IF nl_len > 0
                   THEN [self |-> GeneralStreamingParserNewlines_end_row(self, pos, pos + nl_len),
                         pos |-> pos + nl_len, left |-> FALSE]
                   ELSE [self |-> self, pos |-> pos, left |-> TRUE]
              ELSE IF nl_len > 0
                   THEN [self |-> GeneralStreamingParserNewlines_end_row(self, pos, pos + nl_len),
                         pos |-> pos + nl_len, left |-> FALSE]
                   ELSE [self |-> self, pos |-> pos + 1, left |-> FALSE]

(* One iteration of the while loop of parse_line_fields_owned_general; the *)
(* last field is pushed when the loop is left.                             *)
parse_line_fields_owned_general_iteration(line, separators, escape, st) ==
    LET esc_len == Len(escape)
        pos == st.pos
        sep_len == matches_separator(line, pos, separators) IN
    IF ~(pos < Len(line))
    THEN [st EXCEPT !.fields = Append(@, extract_field_owned_general(line, st.field_start, pos, escape)),
                    !.left = TRUE]
    ELSE IF st.in_quotes
         THEN IF starts_with_escape(line, pos, escape)
              THEN IF starts_with_escape(line, pos + esc_len, escape)
                   THEN [st EXCEPT !.pos = pos + 2 * esc_len]
                   ELSE [st EXCEPT !.in_quotes = FALSE, !.pos = pos + esc_len]
              ELSE [st EXCEPT !.pos = pos + 1]
         ELSE IF starts_with_escape(line, pos, escape)
         THEN [st EXCEPT !.in_quotes = TRUE, !.pos = pos + esc_len]
         ELSE IF sep_len > 0
         THEN [st EXCEPT !.fields = Append(@, extract_field_owned_general(line, st.field_start, pos, escape)),
                         !.pos = pos + sep_len,
                         !.field_start = pos + sep_len]
         ELSE [st EXCEPT !.pos = pos + 1]

(* One iteration of the while loop of parse_row_general; left says that    *)
(* the function returned, at a row end or at the end of the input.         *)
parse_row_general_iteration(input, separators, escape, st) ==
    LET esc_len == Len(escape)
        pos == st.pos
        sep_len == matches_separator(input, pos, separators)
        field == extract_field_cow_general(input, st.field_start, pos, escape) IN
    IF ~(pos < Len(input))
    THEN [st EXCEPT !.fields = IF st.field_start <= Len(input) THEN Append(@, field) ELSE @,
                    !.left = TRUE]
    ELSE IF st.in_quotes
         THEN IF starts_with_escape(input, pos, escape)
              THEN IF starts_with_escape(input, pos + esc_len, escape)
                   THEN [st EXCEPT !.pos = pos + 2 * esc_len]
                   ELSE [st EXCEPT !.in_quotes = FALSE, !.pos = pos + esc_len]
              ELSE [st EXCEPT !.pos = pos + 1]
         ELSE IF starts_with_escape(input, pos, escape)
         THEN [st EXCEPT !.in_quotes = TRUE, !.pos = pos + esc_len]
         ELSE IF sep_len > 0
         THEN [st EXCEPT !.fields = Append(@, field), !.pos = pos + sep_len,
                         !.field_start = pos + sep_len]
         ELSE IF input[pos + 1] = LF
         THEN [st EXCEPT !.fields = Append(@, field), !.pos = pos + 1, !.left = TRUE]
         ELSE IF input[pos + 1] = CR /\ pos + 1 < Len(input) /\ input[pos + 2] = LF
         THEN [st EXCEPT !.fields = Append(@, field), !.pos = pos + 2, !.left = TRUE]
         ELSE [st EXCEPT !.pos = pos + 1]

(***************************************************************************)
(* The calls of one configuration, decoded from its three terms.  With     *)
(* custom newlines the calls are streaming_feed and streaming_finalize on  *)
(* a GeneralStreamingParserNewlines; with the default newlines the call is *)
(* parse_csv_general on a whole input.  parser.loop names the loop that is *)
(* running, parser.input what it scans and parser.st its locals; fed is    *)
(* every byte given to the calls and delivered the rows they returned.     *)
(***************************************************************************)
LoopChunks == BytesUpTo({COMMA, QUOTE, LF}, MaxLoopChunk)

LoopInputs == BytesUpTo({COMMA, QUOTE, LF, CR}, MaxLoopInput)

RunningLoops == {"process_buffer", "parse_line_fields_owned_general", "parse_row_general"}

Configured(s, e, n) ==
    [kind |-> "Loops",
     loop |-> IF s.ok /\ e.ok /\ n.ok THEN "idle" ELSE "badarg",
     separators |-> s.patterns,
     escape |-> IF e.ok THEN e.patterns[1] ELSE <<>>,
     is_default |-> n.is_default,
     self |-> GeneralStreamingParserNewlines_new(s.patterns,
                                                 IF e.ok THEN e.patterns[1] ELSE <<>>,
                                                 [patterns |-> n.patterns, is_default |-> n.is_default]),
     input |-> <<>>,
     st |-> LoopStart(0),
     rows |-> <<>>]

(* streaming_new_with_config and the head of parse_string_with_config:     *)
(* the three decoders, each of which can raise badarg.                     *)
InitLoops ==
    /\ \E sep_term \in SeparatorTerms, esc_term \in EscapeTerms, newlines_term \in NewlineTerms :
          parser = Configured(decode_separators(sep_term), decode_escape(esc_term),
                              decode_newlines(newlines_term))
    /\ InitResource

(* GeneralStreamingParserNewlines::feed up to the loop of process_buffer. *)
LoopFeed(chunk) ==
    /\ parser.loop = "idle"
    /\ ~parser.is_default
    /\ ~poisoned
    /\ Len(fed) + Len(chunk) <= MaxLoopInput
    /\ IF Len(parser.self.buffer) + Len(chunk) > parser.self.max_buffer_size
       THEN /\ result' = "buffer_overflow"
            /\ UNCHANGED <<parser, fed, lateFeed>>
       ELSE /\ parser' = [parser EXCEPT !.self.buffer = @ \o chunk,
                                        !.loop = "process_buffer",
                                        !.input = parser.self.buffer \o chunk,
                                        !.st = LoopStart(parser.self.scan_pos)]
            /\ result' = "feeding"
            /\ fed' = fed \o chunk
            /\ lateFeed' = (lateFeed \/ finalised)
    /\ UNCHANGED <<poisoned, delivered, finalised, resumed>>

(* What the iteration it of process_buffer leaves: the next iteration, or  *)
(* the end of process_buffer, which saves scan_pos and compacts.           *)
ProcessBufferIterated(it) ==
    /\ IF it.left
       THEN LET s == [it.self EXCEPT !.scan_pos = it.pos]
                checked == GeneralStreamingParserNewlines_process_buffer(s, TRUE) IN
            \E r \in IF checked.panic
                     THEN {checked, GeneralStreamingParserNewlines_process_buffer(s, FALSE)}
                     ELSE {checked} :
               /\ parser' = [parser EXCEPT !.self = r.self, !.loop = "idle",
                                           !.st.pos = it.pos, !.st.left = TRUE,
                                           !.st.iterations = @ + 1]
               /\ poisoned' = r.panic
               /\ result' = IF r.panic THEN "panic" ELSE "ok"
       ELSE /\ parser' = [parser EXCEPT !.self = it.self, !.st.pos = it.pos,
                                        !.st.iterations = @ + 1]
            /\ poisoned' = poisoned
            /\ result' = "feeding"
    /\ UNCHANGED <<fed, delivered, finalised, lateFeed, resumed>>

(* An iteration of the loop of process_buffer. *)
ProcessBufferIteration ==
    /\ parser.loop = "process_buffer"
    /\ ProcessBufferIterated(
           GeneralStreamingParserNewlines_process_buffer_iteration(parser.self, parser.st.pos))

(* GeneralStreamingParserNewlines::finalize up to the loop of              *)
(* parse_line_fields_owned_general over the unterminated last row; with no *)
(* such row it returns the rows at once.                                   *)
LoopFinalize ==
    /\ parser.loop = "idle"
    /\ ~parser.is_default
    /\ ~poisoned
    /\ ~finalised
    /\ IF parser.self.partial_row_start < Len(parser.self.buffer)
       THEN /\ parser' = [parser EXCEPT !.loop = "parse_line_fields_owned_general",
                                        !.input = Slice(parser.self.buffer,
                                                        parser.self.partial_row_start,
                                                        Len(parser.self.buffer)),
                                        !.st = LoopStart(0)]
            /\ result' = "finalizing"
            /\ UNCHANGED <<delivered, finalised>>
       ELSE /\ parser' = [parser EXCEPT !.self.complete_rows = <<>>]
            /\ delivered' = delivered \o parser.self.complete_rows
            /\ finalised' = TRUE
            /\ result' = "ok"
    /\ UNCHANGED <<poisoned, fed, lateFeed, resumed>>

(* What the iteration st of the last row's loop leaves: the next           *)
(* iteration, or the rest of finalize.                                     *)
ParseLineIterated(st) ==
    /\ IF st.left
       THEN /\ parser' = [parser EXCEPT !.st = [st EXCEPT !.iterations = @ + 1],
                                        !.loop = "idle",
                                        !.self.complete_rows = <<>>,
                                        !.self.partial_row_start = Len(parser.self.buffer)]
            /\ delivered' = delivered \o (IF st.fields # <<>>
                                          THEN Append(parser.self.complete_rows, st.fields)
                                          ELSE parser.self.complete_rows)
            /\ finalised' = TRUE
            /\ result' = "ok"
       ELSE /\ parser' = [parser EXCEPT !.st = [st EXCEPT !.iterations = @ + 1]]
            /\ result' = "finalizing"
            /\ UNCHANGED <<delivered, finalised>>
    /\ UNCHANGED <<poisoned, fed, lateFeed, resumed>>

(* An iteration of the loop of parse_line_fields_owned_general. *)
ParseLineIteration ==
    /\ parser.loop = "parse_line_fields_owned_general"
    /\ ParseLineIterated(parse_line_fields_owned_general_iteration(
                             parser.input, parser.separators, parser.escape, parser.st))

(* parse_csv_general up to the loop of its first parse_row_general; an     *)
(* empty input returns no rows at once.                                    *)
LoopParse(input) ==
    /\ parser.loop = "idle"
    /\ parser.is_default
    /\ ~finalised
    /\ IF 0 < Len(input)
       THEN /\ parser' = [parser EXCEPT !.loop = "parse_row_general", !.input = input,
                                        !.st = LoopStart(0), !.rows = <<>>]
            /\ result' = "parsing"
            /\ finalised' = FALSE
       ELSE /\ parser' = parser
            /\ result' = "ok"
            /\ finalised' = TRUE
    /\ fed' = input
    /\ UNCHANGED <<poisoned, delivered, lateFeed, resumed>>

(* What the iteration st of parse_row_general leaves: its next iteration,  *)
(* or its return to the loop of parse_csv_general, which pushes the row    *)
(* and calls it again while the input is not used up.                      *)
ParseRowIterated(st) ==
    /\ IF st.left
       THEN IF st.pos < Len(parser.input)
            THEN /\ parser' = [parser EXCEPT !.rows = Append(@, st.fields),
                                             !.st = LoopStart(st.pos)]
                 /\ result' = "parsing"
                 /\ UNCHANGED <<delivered, finalised>>
            ELSE /\ parser' = [parser EXCEPT !.rows = Append(@, st.fields),
                                             !.st = [st EXCEPT !.iterations = @ + 1],
                                             !.loop = "idle"]
                 /\ delivered' = Append(parser.rows, st.fields)
                 /\ finalised' = TRUE
                 /\ result' = "ok"
       ELSE /\ parser' = [parser EXCEPT !.st = [st EXCEPT !.iterations = @ + 1]]
            /\ result' = "parsing"
            /\ UNCHANGED <<delivered, finalised>>
    /\ UNCHANGED <<poisoned, fed, lateFeed, resumed>>

(* An iteration of the loop of parse_row_general. *)
ParseRowIteration ==
    /\ parser.loop = "parse_row_general"
    /\ ParseRowIterated(parse_row_general_iteration(
                            parser.input, parser.separators, parser.escape, parser.st))

NextLoops ==
    \/ \E chunk \in LoopChunks : LoopFeed(chunk)
    \/ ProcessBufferIteration
    \/ LoopFinalize
    \/ ParseLineIteration
    \/ \E input \in LoopInputs : LoopParse(input)
    \/ ParseRowIteration

SpecLoops == InitLoops /\ [][NextLoops]_vars

(* C39: in every configuration the decoders accept, the separator, escape  *)
(* and newline patterns are non-empty, and each iteration of a scan loop   *)
(* of feed, finalize and batch parse either leaves the loop or advances    *)
(* the scan position by at least one byte without passing the end of what  *)
(* it scans, so each call ends within as many iterations as it has bytes.  *)
C39_ScanLoopsAdvance ==
    [][parser.loop \in RunningLoops =>
          /\ parser.escape # <<>>
          /\ ~HasEmpty(parser.separators)
          /\ ~HasEmpty(parser.self.newlines.patterns)
          /\ parser.st.iterations <= Len(parser.input)
          /\ \/ parser'.loop = "idle"
             \/ /\ parser'.loop = parser.loop
                /\ parser'.st.pos >= parser.st.pos + 1
                /\ parser'.st.pos <= Len(parser'.input)]_vars

C39_Witness ==
    /\ parser.escape = <<QUOTE, QUOTE>>
    /\ parser.separators = <<<<COMMA, COMMA>>>>
    /\ parser.self.newlines.patterns = <<<<LF, LF>>, <<LF>>>>
    /\ ~parser.is_default
    /\ fed = <<COMMA, COMMA, LF, QUOTE>>
    /\ parser.loop = "idle"
    /\ parser.st.left
    /\ parser.st.pos = 3
    /\ parser.self.scan_pos = 0
    /\ parser.self.buffer = <<QUOTE>>
    /\ parser.self.complete_rows = <<<<<<>>, <<>>>>>>

====
